---- MODULE Spec2Model ----
(***************************************************************************)
(* DropVault: the collaboration relay (src/src/server.js) and the          *)
(* collaborative editor client (src/src/components/CollabEditor.tsx).      *)
(*                                                                         *)
(* Spec      the relay registry under arbitrary client messages            *)
(* SpecSync  editor clients that open a file, join, sync and load through  *)
(*           the relay (no typing, no persistence writes)                  *)
(***************************************************************************)
EXTENDS Integers, Sequences, FiniteSets, Bags, TLC

\* ---------------------------------------------------------------- bounds
MaxRegistered == 3   \* registrations <<socket, room, file>> held at once
MaxStale == 1        \* sockets whose disconnect event was missed, at once
MaxStarting == 1     \* editors opening or with work pending when one more opens
MaxTyped == 2        \* changes a user makes in the textarea of one editor
MaxWrites == 2       \* saves of one editor in flight at the gateway
MaxSwitch == 1       \* times the user of one editor selects another file
MaxSaves == 3        \* saves of one editor under way, waiting ones included

Sockets == {"s1", "s2", "s3"}
Rooms == {"r1", "r2"}
Files == {"x", "y"}
None == "none"
\* the files the editors open: one with a saved snapshot, and its namesake in
\* another room
Opened == {<<"r1", "x">>, <<"r2", "x">>}

\* a Yjs item: the text one insert put into the document, its id <<clientID,
\* clock>> and the id of the item that was first in the text when it was
\* inserted (every insert of the editor is at index 0, so its left origin is
\* null and its right origin is the first item, deleted or not)
NoId == <<None, 0>>
Item(c, k, text, right) == [id |-> <<c, k>>, text |-> text, right |-> right]

\* a Yjs update: the items a transaction added and the ids it deleted
Update(structs, ds) == [structs |-> structs, ds |-> ds]
NoUpdate == Update({}, {})

\* bytes that are not the encoding of an update: Y.applyUpdate throws on them
Malformed == [bytes |-> "malformed"]
Updates == {Update({Item("s1", 0, <<"S">>, NoId)}, {})}

VARIABLES
  connected,     \* io.sockets.sockets: ids of the sockets whose transport is open
  roomData,      \* roomData: roomId -> [files: fileName -> set of socket ids,
                 \*                      sockets: socketId -> currentFiles]
  out,           \* bag of the messages the relay emitted in the step taken last
  joined,        \* history: <<socket, room, file>> joined and not left since
  inRoom,        \* history: <<socket, room>> joined and not disconnected since
  missed,        \* history: sockets closed without a disconnect event, not swept yet
  swept,         \* history: registrations the cleanup interval removed when it ran last
  client,        \* per socket: the CollabEditor that owns it (refs and Y.Doc)
  toRelay,       \* per socket: messages the client emitted, not yet handled by the relay
  inbox,         \* per socket: messages the relay sent, not yet handled by the client
  notes,         \* the notes table: <<room_id, title>> -> row
  idle,          \* history: the socket joined an idle file without snapshot, alone since
  asked          \* history, per editor: the sockets whose sync requests it holds
                 \* unhandled (in) and whose replies it has sent, not yet relayed (out)

syncVars == <<client, toRelay, inbox, notes, idle, asked>>
vars == <<connected, roomData, out, joined, inRoom, missed, swept,
          client, toRelay, inbox, notes, idle, asked>>

\* ------------------------------------------------------------ JS Map/Set
EmptyMap == [k \in {} |-> {}]
MapSet(m, k, v) == [x \in (DOMAIN m) \cup {k} |-> IF x = k THEN v ELSE m[x]]
MapDelete(m, k) == [x \in (DOMAIN m) \ {k} |-> m[x]]

\* ------------------------------------------------------------- emissions
\* by: the handler that emitted the message and the socket it ran for
Msg(ev, to, room, file, requester, update, by) ==
  [ev |-> ev, to |-> to, room |-> room, file |-> file,
   requester |-> requester, update |-> update, by |-> by]

By(on, s) == [on |-> on, s |-> s]

SaveFinalMsg(r, f, by) == Msg("save-final", r, r, f, None, NoUpdate, by)
RequestSyncMsg(to, requester, r, f) ==
  Msg("request-sync", to, r, f, requester, NoUpdate, By("request-file-sync", requester))
YjsUpdateMsg(to, r, f, u, by) == Msg("yjs-update", to, r, f, None, u, by)

\* --------------------------------------------------------------- helpers
getRoomData(rd, r) ==
  IF r \notin DOMAIN rd
    THEN MapSet(rd, r, [files |-> EmptyMap, sockets |-> EmptyMap])
    ELSE rd

\* mutant: the empty room is never deleted
cleanupRoom_keep(rd, r) == rd

cleanupRoom(rd, r) ==
  IF r \notin DOMAIN rd THEN rd
  ELSE IF DOMAIN rd[r].sockets = {} THEN MapDelete(rd, r)
  ELSE rd

\* room.files.get(fileName).delete(id); if (size === 0) room.files.delete(fileName)
\* returns the files map and whether the entry was emptied
deleteEditor(files, f, s) ==
  IF f \notin DOMAIN files THEN [files |-> files, emptied |-> FALSE]
  ELSE LET editors == files[f] \ {s}
       IN IF editors = {}
            THEN [files |-> MapDelete(files, f), emptied |-> TRUE]
            ELSE [files |-> MapSet(files, f, editors), emptied |-> FALSE]

\* ------------------------------------------------------------- join-file
\* mutant: the editor set is created anew on every join
joinFile_resetEditors(rd, s, r, f) ==
  LET rd1 == getRoomData(rd, r)
      room == rd1[r]
      sockets1 == IF s \notin DOMAIN room.sockets
                    THEN MapSet(room.sockets, s, {})
                    ELSE room.sockets
      files2 == MapSet(room.files, f, {s})
      sockets2 == MapSet(sockets1, s, sockets1[s] \cup {f})
  IN MapSet(rd1, r, [files |-> files2, sockets |-> sockets2])

joinFile(rd, s, r, f) ==
  LET rd1 == getRoomData(rd, r)
      room == rd1[r]
      sockets1 == IF s \notin DOMAIN room.sockets
                    THEN MapSet(room.sockets, s, {})
                    ELSE room.sockets
      files1 == IF f \notin DOMAIN room.files
                  THEN MapSet(room.files, f, {})
                  ELSE room.files
      files2 == MapSet(files1, f, files1[f] \cup {s})
      sockets2 == MapSet(sockets1, s, sockets1[s] \cup {f})
  IN MapSet(rd1, r, [files |-> files2, sockets |-> sockets2])

JoinFile(s, r, f) ==
  /\ s \in connected
  /\ <<s, r, f>> \in joined \/ Cardinality(joined) < MaxRegistered
  /\ roomData' = joinFile(roomData, s, r, f)
  /\ out' = EmptyBag
  /\ joined' = joined \cup {<<s, r, f>>}
  /\ inRoom' = inRoom \cup {<<s, r>>}
  /\ swept' = {}
  /\ UNCHANGED <<connected, missed>>

\* ------------------------------------------------------------ leave-file
\* mutant: save-final without the size check
leaveFile_emitAlways(rd, s, r, f) ==
  IF r \notin DOMAIN rd THEN [rd |-> rd, out |-> EmptyBag]
  ELSE LET room == rd[r]
           del == deleteEditor(room.files, f, s)
           sockets1 == IF s \in DOMAIN room.sockets
                         THEN MapSet(room.sockets, s, room.sockets[s] \ {f})
                         ELSE room.sockets
       IN [rd |-> MapSet(rd, r, [files |-> del.files, sockets |-> sockets1]),
           out |-> IF f \in DOMAIN room.files
                     THEN SetToBag({SaveFinalMsg(r, f, By("leave-file", s))})
                     ELSE EmptyBag]

\* mutant: the file stays in the socket's current files
leaveFile_keepsCurrent(rd, s, r, f) ==
  IF r \notin DOMAIN rd THEN [rd |-> rd, out |-> EmptyBag]
  ELSE LET room == rd[r]
           del == deleteEditor(room.files, f, s)
       IN [rd |-> MapSet(rd, r, [files |-> del.files, sockets |-> room.sockets]),
           out |-> IF del.emptied THEN SetToBag({SaveFinalMsg(r, f, By("leave-file", s))})
                                  ELSE EmptyBag]

leaveFile(rd, s, r, f) ==
  IF r \notin DOMAIN rd THEN [rd |-> rd, out |-> EmptyBag]
  ELSE LET room == rd[r]
           del == deleteEditor(room.files, f, s)
           sockets1 == IF s \in DOMAIN room.sockets
                         THEN MapSet(room.sockets, s, room.sockets[s] \ {f})
                         ELSE room.sockets
       IN [rd |-> MapSet(rd, r, [files |-> del.files, sockets |-> sockets1]),
           out |-> IF del.emptied THEN SetToBag({SaveFinalMsg(r, f, By("leave-file", s))})
                                  ELSE EmptyBag]

LeaveFile(s, r, f) ==
  /\ s \in connected
  /\ LET res == leaveFile(roomData, s, r, f)
     IN /\ roomData' = res.rd
        /\ out' = res.out
  /\ joined' = joined \ {<<s, r, f>>}
  /\ swept' = {}
  /\ UNCHANGED <<connected, inRoom, missed>>

\* ----------------------------------------------------- request-file-sync
\* mutant: the requester is asked too
requestFileSync_inclSelf(rd, s, r, f) ==
  IF r \notin DOMAIN rd \/ f \notin DOMAIN rd[r].files THEN EmptyBag
  ELSE SetToBag({RequestSyncMsg(e, s, r, f) : e \in rd[r].files[f]})

requestFileSync(rd, s, r, f) ==
  IF r \notin DOMAIN rd \/ f \notin DOMAIN rd[r].files THEN EmptyBag
  ELSE SetToBag({RequestSyncMsg(e, s, r, f) : e \in rd[r].files[f] \ {s}})

RequestFileSync(s, r, f) ==
  /\ s \in connected
  /\ out' = requestFileSync(roomData, s, r, f)
  /\ swept' = {}
  /\ UNCHANGED <<connected, roomData, joined, inRoom, missed>>

\* ------------------------------------------------------------ yjs-update
\* mutant: the update goes to every other socket of the room
yjsUpdate_roomWide(rd, s, r, f, u) ==
  IF r \notin DOMAIN rd \/ f \notin DOMAIN rd[r].files THEN EmptyBag
  ELSE SetToBag({YjsUpdateMsg(e, r, f, u, By("yjs-update", s)) :
                   e \in (DOMAIN rd[r].sockets) \ {s}})

yjsUpdate(rd, s, r, f, u) ==
  IF r \notin DOMAIN rd \/ f \notin DOMAIN rd[r].files THEN EmptyBag
  ELSE SetToBag({YjsUpdateMsg(e, r, f, u, By("yjs-update", s)) : e \in rd[r].files[f] \ {s}})

YjsUpdate(s, r, f, u) ==
  /\ s \in connected
  /\ out' = yjsUpdate(roomData, s, r, f, u)
  /\ swept' = {}
  /\ UNCHANGED <<connected, roomData, joined, inRoom, missed>>

\* ------------------------------------------------------------ reply-sync
\* mutant: the reply is broadcast to every other socket
replySync_broadcast(s, to, f, u) ==
  SetToBag({YjsUpdateMsg(x, None, f, u, By("reply-sync", s)) : x \in Sockets \ {s}})

replySync(s, to, f, u) ==
  IF to # None
    THEN SetToBag({YjsUpdateMsg(to, None, f, u, By("reply-sync", s))})
    ELSE EmptyBag

ReplySync(s, to, f, u) ==
  /\ s \in connected
  /\ out' = replySync(s, to, f, u)
  /\ swept' = {}
  /\ UNCHANGED <<connected, roomData, joined, inRoom, missed>>

\* ------------------------------------------------------------ disconnect
RECURSIVE disconnectFiles(_, _, _, _)
disconnectFiles(files, s, r, cur) ==
  IF cur = {} THEN [files |-> files, out |-> EmptyBag]
  ELSE LET f == CHOOSE x \in cur : TRUE
           del == deleteEditor(files, f, s)
           rest == disconnectFiles(del.files, s, r, cur \ {f})
       IN [files |-> rest.files,
           out |-> IF del.emptied
                     THEN SetToBag({SaveFinalMsg(r, f, By("disconnect", s))}) (+) rest.out
                     ELSE rest.out]

\* mutant: the loop over the rooms stops after the first room of the socket
disconnect_firstRoomOnly(rd, s, todo) ==
  LET mine == {r \in todo : s \in DOMAIN rd[r].sockets}
  IN IF mine = {} THEN [rd |-> rd, out |-> EmptyBag]
     ELSE LET r == CHOOSE x \in mine : TRUE
              room == rd[r]
              res == disconnectFiles(room.files, s, r, room.sockets[s])
              rd1 == MapSet(rd, r, [files |-> res.files,
                                    sockets |-> MapDelete(room.sockets, s)])
          IN [rd |-> cleanupRoom(rd1, r), out |-> res.out]

RECURSIVE disconnect(_, _, _)
disconnect(rd, s, todo) ==
  IF todo = {} THEN [rd |-> rd, out |-> EmptyBag]
  ELSE LET r == CHOOSE x \in todo : TRUE
           room == rd[r]
       IN IF s \in DOMAIN room.sockets
            THEN LET res == disconnectFiles(room.files, s, r, room.sockets[s])
                     rd1 == MapSet(rd, r, [files |-> res.files,
                                           sockets |-> MapDelete(room.sockets, s)])
                     rest == disconnect(cleanupRoom(rd1, r), s, todo \ {r})
                 IN [rd |-> rest.rd, out |-> res.out (+) rest.out]
            ELSE disconnect(rd, s, todo \ {r})

Disconnect(s) ==
  /\ s \in connected
  /\ connected' = connected \ {s}
  /\ LET res == disconnect(roomData, s, DOMAIN roomData)
     IN /\ roomData' = res.rd
        /\ out' = res.out
  /\ joined' = {t \in joined : t[1] # s}
  /\ inRoom' = {t \in inRoom : t[1] # s}
  /\ swept' = {}
  /\ UNCHANGED missed

\* ------------------------------------------------------------ connection
\* a socket id names one connection: it is reused only when nothing of an
\* earlier connection is left in the registry
Referenced(s) == \E r \in DOMAIN roomData : s \in DOMAIN roomData[r].sockets

Connection(s) ==
  /\ s \notin connected
  /\ ~Referenced(s)
  /\ connected' = connected \cup {s}
  /\ out' = EmptyBag
  /\ swept' = {}
  /\ UNCHANGED <<roomData, joined, inRoom, missed>>

\* the transport closes and the relay's disconnect handler does not run: the
\* case the cleanup interval looks for
MissedDisconnect(s) ==
  /\ s \in connected
  /\ Referenced(s)
  /\ Cardinality(missed) < MaxStale
  /\ connected' = connected \ {s}
  /\ missed' = missed \cup {s}
  /\ out' = EmptyBag
  /\ swept' = {}
  /\ UNCHANGED <<roomData, joined, inRoom>>

\* ------------------------------------------------------ cleanup interval
RECURSIVE sweepFiles(_, _, _)
sweepFiles(files, s, cur) ==
  IF cur = {} THEN files
  ELSE LET f == CHOOSE x \in cur : TRUE
       IN sweepFiles(deleteEditor(files, f, s).files, s, cur \ {f})

RECURSIVE sweepSockets(_, _)
sweepSockets(room, socketsToRemove) ==
  IF socketsToRemove = {} THEN room
  ELSE LET s == CHOOSE x \in socketsToRemove : TRUE
           room1 == IF s \in DOMAIN room.sockets
                      THEN [files |-> sweepFiles(room.files, s, room.sockets[s]),
                            sockets |-> MapDelete(room.sockets, s)]
                      ELSE room
       IN sweepSockets(room1, socketsToRemove \ {s})

\* mutant: the connected test is inverted (!socket || socket.connected)
isStale_always(s, conn) == TRUE

\* const socket = io.sockets.sockets.get(socketId); !socket || !socket.connected
isStale(s, conn) == s \notin conn

RECURSIVE sweep(_, _, _)
sweep(rd, conn, todo) ==
  IF todo = {} THEN [rd |-> rd, out |-> EmptyBag]
  ELSE LET r == CHOOSE x \in todo : TRUE
           socketsToRemove == {s \in DOMAIN rd[r].sockets : isStale(s, conn)}
           room1 == sweepSockets(rd[r], socketsToRemove)
           rd1 == IF DOMAIN room1.sockets = {}
                    THEN MapDelete(rd, r)
                    ELSE MapSet(rd, r, room1)
       IN sweep(rd1, conn, todo \ {r})

CleanupInterval ==
  /\ LET res == sweep(roomData, connected, DOMAIN roomData)
     IN /\ roomData' = res.rd
        /\ out' = res.out
  /\ joined' = {t \in joined : t[1] \notin missed}
  /\ inRoom' = {t \in inRoom : t[1] \notin missed}
  /\ missed' = {}
  /\ swept' = {t \in joined : t[1] \in missed}
  /\ UNCHANGED connected

\* ---------------------------------------------------------------- status
\* the per-file editor counts of GET /status
StatusEditors(r, f) ==
  IF r \in DOMAIN roomData /\ f \in DOMAIN roomData[r].files
    THEN Cardinality(roomData[r].files[f])
    ELSE 0

StatusHasFile(r, f) == r \in DOMAIN roomData /\ f \in DOMAIN roomData[r].files

EditorsIn(rd, r, f) ==
  IF r \in DOMAIN rd /\ f \in DOMAIN rd[r].files
    THEN rd[r].files[f]
    ELSE {}

Editors(r, f) == EditorsIn(roomData, r, f)

\* --------------------------------------------------------- specification
Registered(r, f) == {s \in Sockets : <<s, r, f>> \in joined}

\* ================================================================ client
\* CollabEditor.tsx: one editor per socket

\* what a select of (room_id, title) returns; rows counts the records
NoNote == [exists |-> FALSE, content |-> <<>>, rows |-> 0]
Note(text) == [exists |-> TRUE, content |-> text, rows |-> 1]

ToRelayMsg(ev, r, f, to, u) == [ev |-> ev, room |-> r, file |-> f, to |-> to, update |-> u]
ToClientMsg(ev, f, requester, u) == [ev |-> ev, file |-> f, requester |-> requester, update |-> u]

\* Y.Doc clientID: random per document; here the documents are numbered in
\* the order of the sockets
clientID == [s \in Sockets |-> CHOOSE i \in 1..3 : <<"s1", "s2", "s3">>[i] = s]

\* a Y.Doc with its one Y.Text: the item list in document order (deleted
\* items stay in it), the delete set, and the items received whose
\* predecessors are still missing
EmptyDoc == [list |-> <<>>, ds |-> {}, pend |-> {}]

Ids(list) == {list[i].id : i \in DOMAIN list}

\* the next clock the document expects of a client
getState(list, c) ==
  LET ends == {list[i].id[2] + Len(list[i].text) :
                 i \in {j \in DOMAIN list : list[j].id[1] = c}}
  IN IF ends = {} THEN 0 ELSE CHOOSE m \in ends : \A n \in ends : n <= m

\* Item.integrate for an item whose left origin is null: scan from the start
\* of the list to the item's right origin; the result is the index after
\* which the item goes
RECURSIVE findLeft(_, _, _, _)
findLeft(list, item, j, left) ==
  IF j > Len(list) \/ list[j].id = item.right THEN left
  ELSE IF clientID[list[j].id[1]] < clientID[item.id[1]]
    THEN findLeft(list, item, j + 1, j)
  ELSE IF list[j].right = item.right THEN left
  ELSE findLeft(list, item, j + 1, left)

\* variant: a struct is put in front of the list whatever the list holds
integrate_atHead(list, item) == <<item>> \o list

integrate(list, item) ==
  LET left == findLeft(list, item, 1, 0)
  IN SubSeq(list, 1, left) \o <<item>> \o SubSeq(list, left + 1, Len(list))

\* an item can be integrated when its clock is the next one of its client and
\* its right origin is in the document
ready(list, item) ==
  /\ item.id[2] = getState(list, item.id[1])
  /\ item.right = NoId \/ item.right \in Ids(list)

RECURSIVE integrateAll(_, _)
integrateAll(list, pend) ==
  LET fresh == {p \in pend : p.id[2] >= getState(list, p.id[1])}
      rdy == {p \in fresh : ready(list, p)}
  IN IF rdy = {} THEN [list |-> list, pend |-> fresh]
     ELSE LET p == CHOOSE q \in rdy : TRUE
          IN integrateAll(integrate(list, p), fresh \ {p})

\* Y.applyUpdate on the document
\* variant: the structs of an update replace what the document shows
readUpdate_lastWins(doc, u) ==
  LET r == integrateAll(doc.list, doc.pend \cup u.structs)
  IN [list |-> r.list,
      ds |-> doc.ds \cup u.ds \cup (IF u.structs = {} THEN {} ELSE Ids(doc.list)),
      pend |-> r.pend]

readUpdate(doc, u) ==
  LET r == integrateAll(doc.list, doc.pend \cup u.structs)
  IN [list |-> r.list, ds |-> doc.ds \cup u.ds, pend |-> r.pend]

\* the update event of a transaction that took the document from old to new
Deleted(doc) == Ids(doc.list) \cap doc.ds
updateEvent(old, new) ==
  Update({new.list[i] : i \in {j \in DOMAIN new.list : new.list[j].id \notin Ids(old.list)}},
         Deleted(new) \ Deleted(old))

\* ytext.toString()
RECURSIVE visibleText(_, _)
visibleText(list, ds) ==
  IF list = <<>> THEN <<>>
  ELSE (IF Head(list).id \in ds THEN <<>> ELSE Head(list).text)
         \o visibleText(Tail(list), ds)

toString(ydoc) == visibleText(ydoc.list, ydoc.ds)

\* ytext.length
ytextLength(ydoc) == Len(toString(ydoc))

\* ytext.insert(0, text) by the document of client c
insertText(ydoc, c, text) ==
  IF text = <<>> THEN ydoc
  ELSE [ydoc EXCEPT !.list =
          <<Item(c, getState(ydoc.list, c), text,
                 IF ydoc.list = <<>> THEN NoId ELSE ydoc.list[1].id)>> \o @]

\* ytext.delete(0, ytext.length)
deleteText(ydoc) == [ydoc EXCEPT !.ds = @ \cup Ids(ydoc.list)]

\* updateHandler: the update event of a transaction and its origin; an event
\* it does not drop goes to debouncedEmitUpdate, which keeps the last one
updateHandler(cl, event, origin) ==
  IF origin = "remote" THEN cl ELSE [cl EXCEPT !.emit = event, !.emitFirst = FALSE]

\* textObserver, with the value isUpdatingFromRemoteRef has when it runs
textObserver(cl, isUpdatingFromRemote) ==
  [cl EXCEPT !.text = toString(cl.ydoc),
             !.saveTimer = IF ~isUpdatingFromRemote /\ cl.isLoaded THEN TRUE ELSE @]

\* a transaction that takes the document to new: when it changed the text the
\* update event and the observer run
transact(cl, new, origin, isUpdatingFromRemote) ==
  LET event == updateEvent(cl.ydoc, new)
      changed == [cl EXCEPT !.ydoc = new]
  IN IF event = NoUpdate THEN changed
     ELSE textObserver(updateHandler(changed, event, origin), isUpdatingFromRemote)

\* Y.applyUpdate(ydoc, u) inside handleYjsUpdate: no origin is given, and
\* isUpdatingFromRemoteRef is set around the call
applyUpdate(cl, u) == transact(cl, readUpdate(cl.ydoc, u), None, TRUE)

\* Y.encodeStateAsUpdate(ydoc)
encodeStateAsUpdate(ydoc) == Update({ydoc.list[i] : i \in DOMAIN ydoc.list}, Deleted(ydoc))

\* history: the save request handled last (its kind, whether it named the
\* current file, whether the content was neither persisted nor being
\* written, whether a write of the content was started)
NoTrigger == [on |-> None, current |-> FALSE, owed |-> FALSE, wrote |-> FALSE,
              pending |-> FALSE]

\* the refs of an editor that is not open
Closed ==
  [status |-> "closed", room |-> None, file |-> None, ydoc |-> EmptyDoc,
   isLoaded |-> FALSE, lastSaved |-> <<>>,
   load |-> "off", emit |-> NoUpdate,
   text |-> <<>>, typed |-> [on |-> FALSE, value |-> <<>>], saveTimer |-> FALSE,
   emitFirst |-> FALSE, edits |-> 0, unsent |-> {},
   writes |-> <<>>, lastOk |-> <<>>, switched |-> 0,
   trigger |-> NoTrigger,
   savePromise |-> 0, cached |-> {}, error |-> None,
   isUpdatingFromRemote |-> FALSE, offlineEdits |-> {}]

Gone == [Closed EXCEPT !.status = "gone"]

\* a socket id names one connection and is not used again; the editors take
\* the ids in order as they open
Unused(c) ==
  /\ client[c].status = "closed"
  /\ \A x \in Sockets : clientID[x] < clientID[c] => client[x].status # "closed"

\* the editor has a message, a timer or its connection pending
Unsettled(x) ==
  \/ client[x].status = "connecting"
  \/ client[x].load = "timer"
  \/ client[x].emit # NoUpdate
  \/ toRelay[x] # <<>>
  \/ inbox[x] # <<>>

\* ---------------------------------------------- main effect (file opened)
Mount(c, r, f) ==
  /\ Unused(c)
  /\ Cardinality({x \in Sockets : Unsettled(x)}) < MaxStarting
  /\ client' = [client EXCEPT ![c] =
                  [Closed EXCEPT !.status = "connecting", !.room = r, !.file = f]]
  /\ UNCHANGED <<toRelay, inbox, notes, idle, asked>>
  /\ out' = EmptyBag
  /\ UNCHANGED <<connected, roomData, joined, inRoom, missed, swept>>

\* the relay accepts the transport of a connecting client
SyncConnection(c) ==
  /\ client[c].status = "connecting"
  /\ Connection(c)
  /\ UNCHANGED syncVars

\* ------------------------------------------------------- handleConnection
HandleConnection(c) ==
  /\ client[c].status = "connecting"
  /\ c \in connected
  /\ client' = [client EXCEPT ![c].status = "connected",
                              ![c].load = "timer"]
  /\ toRelay' = [toRelay EXCEPT ![c] =
                   @ \o <<ToRelayMsg("join-file", client[c].room, client[c].file, None, NoUpdate),
                          ToRelayMsg("request-file-sync", client[c].room, client[c].file,
                                     None, NoUpdate)>>]
  /\ UNCHANGED <<inbox, notes, idle, asked>>
  /\ out' = EmptyBag
  /\ UNCHANGED <<connected, roomData, joined, inRoom, missed, swept>>

\* ------------------------------------------------------- loadExistingNote
\* mutant: the select filters on the title only
selectNote_anyRoom(db, r, f) ==
  IF db[<<r, f>>].exists THEN db[<<r, f>>]
  ELSE IF \E r2 \in Rooms : db[<<r2, f>>].exists
    THEN db[<<CHOOSE r2 \in Rooms : db[<<r2, f>>].exists, f>>]
    ELSE NoNote

\* the select: the row of (room_id, title)
selectNote(db, r, f) == db[<<r, f>>]

\* loadExistingNote, from the row its select returned
\* variant: the snapshot is inserted whatever the document holds
loadExistingNote_unchecked(cl, c, data) ==
  LET inserted == transact(cl, insertText(cl.ydoc, c, data.content), None, TRUE)
  IN IF data.exists /\ data.content # <<>>
       THEN [inserted EXCEPT !.lastSaved = data.content,
                             !.cached = @ \cup {cl.file},
                             !.lastOk = data.content,
                             !.text = data.content,
                             !.isUpdatingFromRemote = FALSE,
                             !.isLoaded = TRUE, !.load = "off"]
       ELSE [cl EXCEPT !.isLoaded = TRUE, !.load = "off"]

\* the select has returned data; the length of ytext is read then
loadExistingNote(cl, c, data) ==
  LET inserted == transact(cl, insertText(cl.ydoc, c, data.content), None, TRUE)
  IN IF data.exists /\ data.content # <<>> /\ ytextLength(cl.ydoc) = 0
       THEN [inserted EXCEPT !.lastSaved = data.content,
                             !.cached = @ \cup {cl.file},
                             !.lastOk = data.content,
                             !.text = data.content,
                             !.isUpdatingFromRemote = FALSE,
                             !.isLoaded = TRUE, !.load = "off"]
       ELSE [cl EXCEPT !.isLoaded = TRUE, !.load = "off"]

\* the load timer of handleConnection fires; the select returns the row, or
\* nothing when the query fails
LoadExistingNote(c) ==
  /\ client[c].load = "timer"
  /\ \E data \in {selectNote(notes, client[c].room, client[c].file), NoNote} :
       client' = [client EXCEPT ![c] = loadExistingNote(client[c], c, data)]
  /\ out' = EmptyBag
  /\ UNCHANGED <<toRelay, inbox, notes, idle, asked>>
  /\ UNCHANGED <<connected, roomData, joined, inRoom, missed, swept>>

\* ---------------------------------------------------- debouncedEmitUpdate
\* history: of the update events of local edits, those that the message
\* carrying the update u does not carry
NotCarried(events, u) ==
  {e \in events : ~(e.structs \subseteq u.structs /\ e.ds \subseteq u.ds)}

EmitTimer(c) ==
  /\ client[c].emit # NoUpdate
  /\ client' = [client EXCEPT ![c].emit = NoUpdate,
                              ![c].emitFirst = FALSE,
                              ![c].unsent = IF client[c].status = "connected"
                                              THEN NotCarried(@, client[c].emit) ELSE @]
  /\ toRelay' = IF client[c].status = "connected"
                  THEN [toRelay EXCEPT ![c] =
                          Append(@, ToRelayMsg("yjs-update", client[c].room, client[c].file,
                                               None, client[c].emit))]
                  ELSE toRelay
  /\ UNCHANGED <<inbox, notes, idle, asked>>
  /\ out' = EmptyBag
  /\ UNCHANGED <<connected, roomData, joined, inRoom, missed, swept>>

\* ----------------------------------------------- onChange of the textarea
\* the words the users type
Word == [s \in Sockets |-> CHOOSE w \in {"foo", "bar", "baz"} :
           <<"foo", "bar", "baz">>[clientID[s]] = w]

\* the user puts a word in front of the text shown, or clears the textarea
Typable(c) ==
  {<<Word[c]>> \o client[c].text} \cup (IF client[c].text # <<>> THEN {<<>>} ELSE {})

\* the textarea is enabled once loadExistingNote has finished; onChange
\* restarts the timer of debouncedYjsUpdate, which has the delay of the timer
\* of debouncedEmitUpdate: an emit pending now is due first
Type(c, value) ==
  /\ client[c].status \in {"connecting", "connected", "offline"}
  /\ client[c].isLoaded
  /\ client[c].edits < MaxTyped
  /\ client' = [client EXCEPT ![c].text = value,
                              ![c].typed = [on |-> TRUE, value |-> value],
                              ![c].emitFirst = (client[c].emit # NoUpdate),
                              ![c].edits = @ + 1]
  /\ out' = EmptyBag
  /\ UNCHANGED <<toRelay, inbox, notes, idle, asked>>
  /\ UNCHANGED <<connected, roomData, joined, inRoom, missed, swept>>

\* ----------------------------------------------------- debouncedYjsUpdate
\* the text is replaced as a whole: one transaction deletes it, the next
\* inserts the value
debouncedYjsUpdate(cl, c, value) ==
  IF cl.isUpdatingFromRemote \/ toString(cl.ydoc) = value THEN cl
  ELSE LET deleted == transact(cl, deleteText(cl.ydoc), None, TRUE)
       IN transact(deleted, insertText(deleted.ydoc, c, value), None, TRUE)

\* the update events of the two transactions of debouncedYjsUpdate
localEvents(cl, c, value) ==
  IF cl.isUpdatingFromRemote \/ toString(cl.ydoc) = value THEN {}
  ELSE LET d == deleteText(cl.ydoc)
       IN {updateEvent(cl.ydoc, d), updateEvent(d, insertText(d, c, value))} \ {NoUpdate}

DebouncedYjsUpdate(c) ==
  /\ client[c].typed.on
  /\ ~client[c].emitFirst
  /\ client[c].status \in {"connecting", "connected", "offline"}
  /\ client' = [client EXCEPT ![c] =
                  [debouncedYjsUpdate(client[c], c, client[c].typed.value)
                     EXCEPT !.typed = [on |-> FALSE, value |-> <<>>],
                            !.unsent = @ \cup localEvents(client[c], c, client[c].typed.value),
                            !.offlineEdits =
                               IF client[c].status = "connected" THEN @
                               ELSE @ \cup localEvents(client[c], c, client[c].typed.value)]]
  /\ out' = EmptyBag
  /\ UNCHANGED <<toRelay, inbox, notes, idle, asked>>
  /\ UNCHANGED <<connected, roomData, joined, inRoom, missed, swept>>

\* ------------------------------------------------------ handleRequestSync
handleRequestSync(cl, m) ==
  IF m.file # cl.file THEN <<>>
  ELSE <<ToRelayMsg("reply-sync", None, m.file, m.requester, encodeStateAsUpdate(cl.ydoc))>>

HandleRequestSync(c) ==
  /\ client[c].status = "connected"
  /\ inbox[c] # <<>>
  /\ Head(inbox[c]).ev = "request-sync"
  /\ toRelay' = [toRelay EXCEPT ![c] = @ \o handleRequestSync(client[c], Head(inbox[c]))]
  /\ inbox' = [inbox EXCEPT ![c] = Tail(@)]
  /\ asked' = [asked EXCEPT ![c] =
                 [in |-> Tail(@.in),
                  out |-> IF handleRequestSync(client[c], Head(inbox[c])) # <<>>
                            THEN Append(@.out, Head(@.in)) ELSE @.out]]
  /\ client' = [client EXCEPT ![c].unsent =
                  IF handleRequestSync(client[c], Head(inbox[c])) # <<>>
                    THEN NotCarried(@, encodeStateAsUpdate(client[c].ydoc)) ELSE @]
  /\ UNCHANGED <<notes, idle>>
  /\ out' = EmptyBag
  /\ UNCHANGED <<connected, roomData, joined, inRoom, missed, swept>>

\* -------------------------------------------------------- handleYjsUpdate
\* isUpdatingFromRemoteRef is set before Y.applyUpdate and cleared after it;
\* when Y.applyUpdate throws, the catch block sets the error and the flag
\* stays as it is
handleYjsUpdate(cl, m) ==
  IF m.file # cl.file THEN cl
  ELSE IF m.update = Malformed
    THEN [cl EXCEPT !.isUpdatingFromRemote = TRUE, !.error = "merge"]
  ELSE [applyUpdate(cl, m.update) EXCEPT !.isUpdatingFromRemote = FALSE]

\* the bytes of the update at the head of the inbox are not those of an
\* update (the payload is whatever the sender put into yjs-update)
Corrupt(c) ==
  /\ inbox[c] # <<>>
  /\ Head(inbox[c]).ev = "yjs-update"
  /\ Head(inbox[c]).update # Malformed
  /\ inbox' = [inbox EXCEPT ![c] = <<[Head(@) EXCEPT !.update = Malformed]>> \o Tail(@)]
  /\ out' = EmptyBag
  /\ UNCHANGED <<client, toRelay, notes, idle, asked>>
  /\ UNCHANGED <<connected, roomData, joined, inRoom, missed, swept>>

HandleYjsUpdate(c) ==
  /\ client[c].status = "connected"
  /\ inbox[c] # <<>>
  /\ Head(inbox[c]).ev = "yjs-update"
  /\ client' = [client EXCEPT ![c] = handleYjsUpdate(client[c], Head(inbox[c]))]
  /\ inbox' = [inbox EXCEPT ![c] = Tail(@)]
  /\ UNCHANGED <<toRelay, notes, idle, asked>>
  /\ out' = EmptyBag
  /\ UNCHANGED <<connected, roomData, joined, inRoom, missed, swept>>

\* ------------------------------------------- the relay serving the clients
\* io.to(socketId).emit reaches the socket while its transport is open; a
\* handler emits at most one message to a socket
Deliver(box, bag, conn) ==
  [x \in Sockets |->
     LET mine == {m \in BagToSet(bag) :
                    m.to = x /\ m.ev \in {"request-sync", "yjs-update"}}
     IN IF x \in conn /\ mine # {}
          THEN LET m == CHOOSE y \in mine : TRUE
               IN Append(box[x], ToClientMsg(m.ev, m.file, m.requester, m.update))
          ELSE box[x]]

HasSnapshot(r, f) == notes[<<r, f>>].exists /\ notes[<<r, f>>].content # <<>>

SyncJoinFile(c) ==
  /\ toRelay[c] # <<>>
  /\ Head(toRelay[c]).ev = "join-file"
  /\ LET m == Head(toRelay[c])
     IN /\ JoinFile(c, m.room, m.file)
        /\ idle' = [x \in Sockets |->
                      IF x = c
                        THEN Registered(m.room, m.file) \ {c} = {}
                             /\ ~HasSnapshot(m.room, m.file)
                      ELSE IF client[x].room = m.room /\ client[x].file = m.file
                        THEN FALSE
                        ELSE idle[x]]
  /\ toRelay' = [toRelay EXCEPT ![c] = Tail(@)]
  /\ inbox' = Deliver(inbox, out', connected')
  /\ UNCHANGED <<client, notes, asked>>

SyncRequestFileSync(c) ==
  /\ toRelay[c] # <<>>
  /\ Head(toRelay[c]).ev = "request-file-sync"
  /\ RequestFileSync(c, Head(toRelay[c]).room, Head(toRelay[c]).file)
  /\ toRelay' = [toRelay EXCEPT ![c] = Tail(@)]
  /\ inbox' = Deliver(inbox, out', connected')
  /\ asked' = [x \in Sockets |->
                 IF inbox'[x] # inbox[x]
                   THEN [asked[x] EXCEPT !.in = Append(@, c)] ELSE asked[x]]
  /\ UNCHANGED <<client, notes, idle>>

SyncYjsUpdate(c) ==
  /\ toRelay[c] # <<>>
  /\ Head(toRelay[c]).ev = "yjs-update"
  /\ LET m == Head(toRelay[c]) IN YjsUpdate(c, m.room, m.file, m.update)
  /\ toRelay' = [toRelay EXCEPT ![c] = Tail(@)]
  /\ inbox' = Deliver(inbox, out', connected')
  /\ UNCHANGED <<client, notes, idle, asked>>

SyncReplySync(c) ==
  /\ toRelay[c] # <<>>
  /\ Head(toRelay[c]).ev = "reply-sync"
  /\ LET m == Head(toRelay[c]) IN ReplySync(c, m.to, m.file, m.update)
  /\ toRelay' = [toRelay EXCEPT ![c] = Tail(@)]
  /\ inbox' = Deliver(inbox, out', connected')
  /\ asked' = [asked EXCEPT ![c].out = Tail(@)]
  /\ UNCHANGED <<client, notes, idle>>

\* the client ends without running any teardown code (tab or process killed);
\* the relay has handled what it sent and runs its disconnect handler
Kill(c) ==
  /\ client[c].status = "connected"
  /\ toRelay[c] = <<>>
  /\ Disconnect(c)
  /\ client' = [client EXCEPT ![c] = Gone]
  /\ inbox' = [inbox EXCEPT ![c] = <<>>]
  /\ idle' = [idle EXCEPT ![c] = FALSE]
  /\ asked' = [asked EXCEPT ![c] = [in |-> <<>>, out |-> <<>>]]
  /\ UNCHANGED <<toRelay, notes>>

\* ------------------------------------------- the transport is lost, and back
\* the transport of a mounted editor closes: the relay runs its disconnect
\* handler, the editor's "disconnect" listener only sets the status shown,
\* and what was on its way to the editor is lost
Offline(c) ==
  /\ client[c].status = "connected"
  /\ toRelay[c] = <<>>
  /\ Disconnect(c)
  /\ client' = [client EXCEPT ![c].status = "offline"]
  /\ inbox' = [inbox EXCEPT ![c] = <<>>]
  /\ idle' = [idle EXCEPT ![c] = FALSE]
  /\ asked' = [asked EXCEPT ![c] = [in |-> <<>>, out |-> <<>>]]
  /\ UNCHANGED <<toRelay, notes>>

\* socket.io connects again (reconnection: true): the connection has a new
\* socket id d, and the editor goes on under that id with all its refs
Reconnect(c, d) ==
  /\ client[c].status = "offline"
  /\ Unused(d)
  /\ client' = [client EXCEPT ![d] = [client[c] EXCEPT !.status = "connecting"],
                              ![c] = Gone]
  /\ out' = EmptyBag
  /\ UNCHANGED <<toRelay, inbox, notes, idle, asked>>
  /\ UNCHANGED <<connected, roomData, joined, inRoom, missed, swept>>

\* ----------------------------------------------------------------- saveDoc
\* a write handed to the gateway: the row it targets and the content; leave
\* says that the cleanup of the main effect awaits it before leave-file
\* savePromiseRef and the promises awaited are kept as places in writes (0:
\* none, or settled); this is the place after the save at place i has gone
shift(k, i) == IF k = i THEN 0 ELSE IF k > i THEN k - 1 ELSE k

\* variant: no save awaits the promise in savePromiseRef
awaited_none(cl, forceImmediate) == 0

\* a save that is not forced awaits the promise it finds in savePromiseRef
awaited(cl, forceImmediate) == IF forceImmediate THEN 0 ELSE cl.savePromise

\* the step the save starts with once it does not wait: the select of
\* findNoteId, or the upsert when the id of the note is in the cache
startPc(cl, f) == IF f \in cl.cached THEN "upsert" ELSE "lookup"

\* variant: the save takes the content recorded as last saved
Write_stale(cl, f, content, forceImmediate) ==
  [room |-> cl.room, file |-> f, content |-> cl.lastSaved, doc |-> cl.switched, leave |-> FALSE,
   forced |-> forceImmediate, waits |-> awaited(cl, forceImmediate),
   pc |-> IF awaited(cl, forceImmediate) # 0 THEN "wait" ELSE startPc(cl, f),
   conflict |-> FALSE]

\* a save under way: the row it targets and the content; leave says that the
\* cleanup of the main effect awaits it before leave-file; conflict that its
\* insert has hit the uniqueness conflict
Write(cl, f, content, forceImmediate) ==
  [room |-> cl.room, file |-> f, content |-> content, doc |-> cl.switched, leave |-> FALSE,
   forced |-> forceImmediate, waits |-> awaited(cl, forceImmediate),
   pc |-> IF awaited(cl, forceImmediate) # 0 THEN "wait" ELSE startPc(cl, f),
   conflict |-> FALSE]

HasText(cl) == cl.status \in {"connecting", "connected", "offline"}

\* currentContent.trim(): the content without the white space at its ends
Blank == " "

RECURSIVE trimStart(_)
trimStart(s) == IF s # <<>> /\ Head(s) = Blank THEN trimStart(Tail(s)) ELSE s

RECURSIVE trimEnd(_)
trimEnd(s) ==
  IF s # <<>> /\ s[Len(s)] = Blank THEN trimEnd(SubSeq(s, 1, Len(s) - 1)) ELSE s

trim(s) == trimEnd(trimStart(s))

\* variant: the content is not recorded as saved when the save starts
saveDoc_noMark(cl, fileName, forceImmediate) ==
  LET fileToSave == IF fileName # None THEN fileName ELSE cl.file
      currentContent == toString(cl.ydoc)
  IN IF ~HasText(cl) \/ fileToSave = None THEN cl
     ELSE IF ~forceImmediate /\ trim(currentContent) = <<>> THEN cl
     ELSE IF ~forceImmediate /\ currentContent = cl.lastSaved THEN cl
     ELSE [cl EXCEPT !.writes = Append(@, Write(cl, fileToSave, currentContent, forceImmediate)),
                     !.savePromise = IF awaited(cl, forceImmediate) # 0
                                       THEN @ ELSE Len(cl.writes) + 1]

saveDoc(cl, fileName, forceImmediate) ==
  LET fileToSave == IF fileName # None THEN fileName ELSE cl.file
      currentContent == toString(cl.ydoc)
  IN IF ~HasText(cl) \/ fileToSave = None THEN cl
     ELSE IF ~forceImmediate /\ trim(currentContent) = <<>> THEN cl
     ELSE IF ~forceImmediate /\ currentContent = cl.lastSaved THEN cl
     ELSE [cl EXCEPT !.lastSaved = currentContent,
                     !.writes = Append(@, Write(cl, fileToSave, currentContent, forceImmediate)),
                     !.savePromise = IF awaited(cl, forceImmediate) # 0
                                       THEN @ ELSE Len(cl.writes) + 1]

\* the saves under way once the one at place i has settled
settled(ws, i) ==
  [j \in 1..(Len(ws) - 1) |->
     LET w == IF j < i THEN ws[j] ELSE ws[j + 1]
     IN [w EXCEPT !.waits = shift(@, i)]]

\* history: the content is neither the one persisted last nor on its way to
\* the gateway
Unsaved(cl) ==
  /\ toString(cl.ydoc) # cl.lastOk
  /\ \A i \in DOMAIN cl.writes :
       cl.writes[i].doc = cl.switched => cl.writes[i].content # toString(cl.ydoc)

\* history: what the save request did, and whether a timer of the broadcast
\* or of the save was pending when the teardown began
Triggered(cl, new, on, named) ==
  [new EXCEPT !.trigger = [on |-> on, current |-> (named = cl.file),
                           owed |-> Unsaved(cl),
                           wrote |-> /\ Len(new.writes) = Len(cl.writes) + 1
                                     /\ new.writes[Len(new.writes)].content = toString(cl.ydoc),
                           pending |-> /\ on = "teardown"
                                       /\ (cl.emit # NoUpdate \/ cl.saveTimer)]]

\* the gateway answers the oldest write: the row is written, or the write fails
SaveFinish(c, ok) ==
  /\ client[c].writes # <<>>
  /\ LET w == Head(client[c].writes)
     IN /\ notes' = IF ok THEN [notes EXCEPT ![<<w.room, w.file>>] = Note(w.content)]
                         ELSE notes
        /\ client' = [client EXCEPT ![c].writes = settled(@, 1),
                                    ![c].savePromise = shift(@, 1),
                                    ![c].lastOk = IF ok /\ w.doc = client[c].switched
                                                    THEN w.content ELSE @]
        /\ toRelay' = IF w.leave /\ client[c].status = "connected"
                        THEN [toRelay EXCEPT ![c] =
                                Append(@, ToRelayMsg("leave-file", client[c].room,
                                                     client[c].file, None, NoUpdate))]
                        ELSE toRelay
  /\ out' = EmptyBag
  /\ UNCHANGED <<inbox, idle, asked>>
  /\ UNCHANGED <<connected, roomData, joined, inRoom, missed, swept>>

\* --------------------------------------------- the save, step by step
\* the notes table behind supabase: insert fails on a second row for
\* (room_id, title), upsert and update write the content of the row
insertRow(db, k, content) ==
  IF db[k].rows > 0 THEN [db |-> db, duplicate |-> TRUE]
  ELSE [db |-> [db EXCEPT ![k] = Note(content)], duplicate |-> FALSE]

upsertRow(db, k, content) ==
  [db EXCEPT ![k] = [exists |-> TRUE, content |-> content,
                     rows |-> IF db[k].rows = 0 THEN 1 ELSE db[k].rows]]

updateRow(db, k, content) ==
  IF db[k].rows > 0 THEN [db EXCEPT ![k].content = content] ELSE db

\* what a step of the save at place i leaves of the editor: the save goes on
\* at pc, or it has settled (pc is "done"), having persisted its content or
\* not, and having thrown (the catch block calls setError) or not
saveStep(cl, i, pc, persisted, thrown) ==
  LET w == cl.writes[i]
  IN [cl EXCEPT !.writes = IF pc = "done" THEN settled(@, i) ELSE [@ EXCEPT ![i].pc = pc],
                !.savePromise = IF pc = "done" THEN shift(@, i) ELSE @,
                !.lastOk = IF persisted /\ w.doc = cl.switched THEN w.content ELSE @,
                !.error = IF thrown THEN "save" ELSE @]

\* cleanup() goes on after the save it awaited and emits leave-file
leaveAfter(cl, i, pc) ==
  IF pc = "done" /\ cl.writes[i].leave /\ cl.status = "connected"
    THEN <<ToRelayMsg("leave-file", cl.room, cl.file, None, NoUpdate)>>
    ELSE <<>>

\* what every step of a save leaves alone, and the leave-file after it
SaveFrame(c, i, pc) ==
  /\ toRelay' = [toRelay EXCEPT ![c] = @ \o leaveAfter(client[c], i, pc)]
  /\ out' = EmptyBag
  /\ UNCHANGED <<inbox, idle, asked>>
  /\ UNCHANGED <<connected, roomData, joined, inRoom, missed, swept>>

\* the promise awaited has settled: the saves that awaited it go on, in the
\* order of their requests, each one up to its first request to the gateway,
\* and the last of them is the one in savePromiseRef
Resumed(cl) == {i \in DOMAIN cl.writes : cl.writes[i].pc = "wait" /\ cl.writes[i].waits = 0}

resume(cl) ==
  IF Resumed(cl) = {} THEN cl
  ELSE [cl EXCEPT !.writes = [i \in DOMAIN cl.writes |->
                                IF i \in Resumed(cl)
                                  THEN [cl.writes[i] EXCEPT !.pc = startPc(cl, cl.writes[i].file)]
                                  ELSE cl.writes[i]],
                  !.savePromise = CHOOSE i \in Resumed(cl) : \A j \in Resumed(cl) : j <= i]

AtPc(c, i, pc) == i \in DOMAIN client[c].writes /\ client[c].writes[i].pc = pc

Key(w) == <<w.room, w.file>>

\* saveDoc() as the callback of debouncedSave calls it
CallSaveDoc(c) ==
  /\ HasText(client[c])
  /\ client[c].isLoaded
  /\ Len(client[c].writes) < MaxSaves
  /\ saveDoc(client[c], None, FALSE) # client[c]
  /\ client' = [client EXCEPT ![c] = saveDoc(client[c], None, FALSE)]
  /\ out' = EmptyBag
  /\ UNCHANGED <<toRelay, inbox, notes, idle, asked>>
  /\ UNCHANGED <<connected, roomData, joined, inRoom, missed, swept>>

\* saveDoc(currentFile, true) as the page events call it
CallSaveDocForced(c) ==
  /\ HasText(client[c])
  /\ Len(client[c].writes) < MaxSaves
  /\ toString(client[c].ydoc) # client[c].lastSaved
  /\ client' = [client EXCEPT ![c] = saveDoc(client[c], client[c].file, TRUE)]
  /\ out' = EmptyBag
  /\ UNCHANGED <<toRelay, inbox, notes, idle, asked>>
  /\ UNCHANGED <<connected, roomData, joined, inRoom, missed, swept>>

\* the callback of debouncedSave runs
debouncedSave(cl) == IF HasText(cl) /\ cl.isLoaded THEN saveDoc(cl, None, FALSE) ELSE cl

DebouncedSave(c) ==
  /\ HasText(client[c])
  /\ Len(client[c].writes) < MaxWrites
  /\ client' = [client EXCEPT ![c] =
                  Triggered(client[c], debouncedSave(client[c]), "debounced", client[c].file)]
  /\ out' = EmptyBag
  /\ UNCHANGED <<toRelay, inbox, notes, idle, asked>>
  /\ UNCHANGED <<connected, roomData, joined, inRoom, missed, swept>>

\* findNoteId: the select returns the id of the row, or nothing (no row, or
\* the query failed)
lookupStep(cl, i, found) ==
  IF found
    THEN [saveStep(cl, i, "upsert", FALSE, FALSE) EXCEPT !.cached = @ \cup {cl.writes[i].file}]
    ELSE saveStep(cl, i, "insert", FALSE, FALSE)

SaveLookup(c, i, ok) ==
  /\ AtPc(c, i, "lookup")
  /\ client' = [client EXCEPT ![c] =
                  lookupStep(client[c], i, ok /\ notes[Key(client[c].writes[i])].rows > 0)]
  /\ notes' = notes
  /\ SaveFrame(c, i, "upsert")

\* the upsert of an existing record: its error is logged and the save returns
upsertStep(cl, i, ok) == saveStep(cl, i, "done", ok, FALSE)

SaveUpsert(c, i, ok) ==
  /\ AtPc(c, i, "upsert")
  /\ client' = [client EXCEPT ![c] = resume(upsertStep(client[c], i, ok))]
  /\ notes' = IF ok THEN upsertRow(notes, Key(client[c].writes[i]), client[c].writes[i].content)
                    ELSE notes
  /\ SaveFrame(c, i, "done")

\* variant: an insert that hits the uniqueness conflict fails the save
insertStep_noRecovery(cl, i, ok, duplicate) ==
  IF ~ok \/ duplicate THEN saveStep(cl, i, "done", FALSE, TRUE)
  ELSE [saveStep(cl, i, "done", TRUE, FALSE) EXCEPT !.cached = @ \cup {cl.writes[i].file}]

\* the insert of a new note: on the uniqueness conflict the save goes on to
\* recover, any other error is thrown
insertStep(cl, i, ok, duplicate) ==
  IF ~ok THEN saveStep(cl, i, "done", FALSE, TRUE)
  ELSE IF duplicate
    THEN [cl EXCEPT !.writes[i].pc = "refetch", !.writes[i].conflict = TRUE]
  ELSE [saveStep(cl, i, "done", TRUE, FALSE) EXCEPT !.cached = @ \cup {cl.writes[i].file}]

SaveInsert(c, i, ok) ==
  /\ AtPc(c, i, "insert")
  /\ LET w == client[c].writes[i]
         res == insertRow(notes, Key(w), w.content)
     IN /\ client' = [client EXCEPT ![c] = resume(insertStep(client[c], i, ok, res.duplicate))]
        /\ notes' = IF ok THEN res.db ELSE notes
        /\ SaveFrame(c, i, IF ok /\ res.duplicate THEN "refetch" ELSE "done")

\* findNoteId after the conflict: the id from the cache or from the select;
\* without an id the insert error is thrown
refetchStep(cl, i, found) ==
  IF found
    THEN [saveStep(cl, i, "update", FALSE, FALSE) EXCEPT !.cached = @ \cup {cl.writes[i].file}]
    ELSE saveStep(cl, i, "done", FALSE, TRUE)

SaveRefetch(c, i, ok) ==
  /\ AtPc(c, i, "refetch")
  /\ LET w == client[c].writes[i]
         found == w.file \in client[c].cached \/ (ok /\ notes[Key(w)].rows > 0)
     IN /\ client' = [client EXCEPT ![c] = resume(refetchStep(client[c], i, found))]
        /\ SaveFrame(c, i, IF found THEN "update" ELSE "done")
  /\ notes' = notes

\* the update after the conflict: its error is thrown
updateStep(cl, i, ok) == saveStep(cl, i, "done", ok, ~ok)

SaveUpdate(c, i, ok) ==
  /\ AtPc(c, i, "update")
  /\ client' = [client EXCEPT ![c] = resume(updateStep(client[c], i, ok))]
  /\ notes' = IF ok THEN updateRow(notes, Key(client[c].writes[i]), client[c].writes[i].content)
                    ELSE notes
  /\ SaveFrame(c, i, "done")

\* -------------------------------------- handleVisibilityChange, handleUnload
handleVisibilityChange(cl) ==
  IF HasText(cl) /\ toString(cl.ydoc) # cl.lastSaved THEN saveDoc(cl, cl.file, TRUE) ELSE cl

VisibilityHidden(c) ==
  /\ HasText(client[c])
  /\ Len(client[c].writes) < MaxWrites
  /\ client' = [client EXCEPT ![c] =
                  Triggered(client[c], handleVisibilityChange(client[c]), "hidden", client[c].file)]
  /\ out' = EmptyBag
  /\ UNCHANGED <<toRelay, inbox, notes, idle, asked>>
  /\ UNCHANGED <<connected, roomData, joined, inRoom, missed, swept>>

handleUnload(cl) ==
  IF HasText(cl) /\ cl.lastSaved # toString(cl.ydoc)
    THEN saveDoc(cl, cl.file, TRUE)
    ELSE cl

\* beforeunload; the user stays on the page
Unload(c) ==
  /\ HasText(client[c])
  /\ Len(client[c].writes) < MaxWrites
  /\ client' = [client EXCEPT ![c] =
                  Triggered(client[c], handleUnload(client[c]), "unload", client[c].file)]
  /\ out' = EmptyBag
  /\ UNCHANGED <<toRelay, inbox, notes, idle, asked>>
  /\ UNCHANGED <<connected, roomData, joined, inRoom, missed, swept>>

\* --------------------------------------------------------- handleSaveFinal
handleSaveFinal(cl, m) ==
  IF m.file = cl.file THEN saveDoc(cl, m.file, TRUE) ELSE cl

HandleSaveFinal(c) ==
  /\ client[c].status = "connected"
  /\ inbox[c] # <<>>
  /\ Head(inbox[c]).ev = "save-final"
  /\ Len(client[c].writes) < MaxWrites
  /\ client' = [client EXCEPT ![c] =
                  Triggered(client[c], handleSaveFinal(client[c], Head(inbox[c])),
                            "save-final", Head(inbox[c]).file)]
  /\ inbox' = [inbox EXCEPT ![c] = Tail(@)]
  /\ out' = EmptyBag
  /\ UNCHANGED <<toRelay, notes, idle, asked>>
  /\ UNCHANGED <<connected, roomData, joined, inRoom, missed, swept>>

\* ------------------------------------------- cleanup of the main effect
\* variant: the final save is skipped only when the content is unchanged
cleanupSaves_alsoEmpty(cl) == toString(cl.ydoc) # cl.lastSaved

\* the final save of cleanup(): skipped when the content is empty or equal
\* to lastSavedContentRef
cleanupSaves(cl) == toString(cl.ydoc) # <<>> /\ toString(cl.ydoc) # cl.lastSaved

cleanup(cl) ==
  IF cleanupSaves(cl)
    THEN LET saved == saveDoc(cl, cl.file, TRUE)
         IN [saved EXCEPT !.writes[Len(saved.writes)].leave = TRUE]
    ELSE cl

\* variant: leave-file goes out without awaiting the final save
cleanupLeaves_early(cl) ==
  IF cl.status = "connected"
    THEN <<ToRelayMsg("leave-file", cl.room, cl.file, None, NoUpdate)>>
    ELSE <<>>

\* leave-file goes out at once when cleanup() has nothing to await
cleanupLeaves(cl) ==
  IF ~cleanupSaves(cl) /\ cl.status = "connected"
    THEN <<ToRelayMsg("leave-file", cl.room, cl.file, None, NoUpdate)>>
    ELSE <<>>

\* variant: the cleanup leaves the timers running
cancelTimers_none(cl) == cl

\* debouncedSave.cancel() and debouncedEmitUpdate.cancel() at the head of the
\* cleanup
cancelTimers(cl) ==
  [cl EXCEPT !.emit = NoUpdate, !.emitFirst = FALSE, !.saveTimer = FALSE]

\* currentFile changes: the cleanup runs, then the effect again for file f,
\* with the socket it finds in socketRef
SwitchFile(c, f) ==
  /\ HasText(client[c])
  /\ f # client[c].file
  /\ client[c].switched < MaxSwitch
  /\ Len(client[c].writes) < MaxWrites
  /\ client' = [client EXCEPT ![c] =
                  [Triggered(client[c], cleanup(cancelTimers(client[c])), "teardown",
                             client[c].file)
                     EXCEPT !.file = f, !.ydoc = EmptyDoc, !.isLoaded = FALSE,
                            !.lastSaved = <<>>, !.lastOk = <<>>, !.text = <<>>,
                            !.unsent = {}, !.load = "off", !.error = None,
                            !.switched = @ + 1]]
  /\ toRelay' = [toRelay EXCEPT ![c] = @ \o cleanupLeaves(client[c])]
  /\ idle' = [idle EXCEPT ![c] = FALSE]
  /\ out' = EmptyBag
  /\ UNCHANGED <<inbox, notes, asked>>
  /\ UNCHANGED <<connected, roomData, joined, inRoom, missed, swept>>

\* ---------------------------------------- the component is unmounted
\* the cleanup of the main effect, then of the unmount effect, which
\* disconnects the socket; the writes in flight go on
Unmount(c) ==
  /\ HasText(client[c])
  /\ Len(client[c].writes) < MaxWrites
  /\ LET done == Triggered(client[c], cleanup(cancelTimers(client[c])), "teardown",
                           client[c].file)
     IN client' = [client EXCEPT ![c] =
                     [Gone EXCEPT !.room = client[c].room,
                                  !.emit = done.emit,
                                  !.emitFirst = done.emitFirst,
                                  !.saveTimer = done.saveTimer,
                                  !.writes = [i \in DOMAIN done.writes |->
                                                [done.writes[i] EXCEPT !.leave = FALSE]],
                                  !.switched = done.switched,
                                  !.savePromise = done.savePromise,
                                  !.trigger = done.trigger]]
  /\ toRelay' = [toRelay EXCEPT ![c] = @ \o cleanupLeaves(client[c])]
  /\ inbox' = [inbox EXCEPT ![c] = <<>>]
  /\ idle' = [idle EXCEPT ![c] = FALSE]
  /\ asked' = [asked EXCEPT ![c] = [in |-> <<>>, out |-> <<>>]]
  /\ out' = EmptyBag
  /\ UNCHANGED notes
  /\ UNCHANGED <<connected, roomData, joined, inRoom, missed, swept>>

\* ------------------------------- the relay serving leave-file, disconnect
\* io.to(roomId).emit("save-final") reaches the sockets of the room whose
\* editor listens; members is the room membership when the handler starts
DeliverFinal(box, bag, conn, members) ==
  [x \in Sockets |->
     LET mine == {m \in BagToSet(bag) : m.ev = "save-final" /\ <<x, m.room>> \in members}
     IN IF x \in conn /\ client[x].status = "connected" /\ mine # {}
          THEN LET m == CHOOSE y \in mine : TRUE
               IN Append(box[x], ToClientMsg("save-final", m.file, None, NoUpdate))
          ELSE box[x]]

SyncLeaveFile(c) ==
  /\ toRelay[c] # <<>>
  /\ Head(toRelay[c]).ev = "leave-file"
  /\ LeaveFile(c, Head(toRelay[c]).room, Head(toRelay[c]).file)
  /\ toRelay' = [toRelay EXCEPT ![c] = Tail(@)]
  /\ inbox' = DeliverFinal(inbox, out', connected', inRoom)
  /\ UNCHANGED <<client, notes, idle, asked>>

\* the relay learns that the socket of an unmounted editor is closed
SyncDisconnect(c) ==
  /\ client[c].status = "gone"
  /\ toRelay[c] = <<>>
  /\ Disconnect(c)
  /\ inbox' = DeliverFinal(inbox, out', connected', inRoom)
  /\ UNCHANGED <<client, toRelay, notes, idle, asked>>

InitSync ==
  /\ client = [c \in Sockets |-> Closed]
  /\ toRelay = [c \in Sockets |-> <<>>]
  /\ inbox = [c \in Sockets |-> <<>>]
  /\ notes = [k \in Rooms \X Files |->
                IF k = <<"r1", "x">> THEN Note(<<"S">>) ELSE NoNote]
  /\ idle = [c \in Sockets |-> FALSE]
  /\ asked = [c \in Sockets |-> [in |-> <<>>, out |-> <<>>]]

NextSync ==
  \/ \E c \in Sockets, k \in Opened : Mount(c, k[1], k[2])
  \/ \E c \in Sockets : SyncConnection(c)
  \/ \E c \in Sockets : HandleConnection(c)
  \/ \E c \in Sockets : SyncJoinFile(c)
  \/ \E c \in Sockets : SyncRequestFileSync(c)
  \/ \E c \in Sockets : SyncYjsUpdate(c)
  \/ \E c \in Sockets : SyncReplySync(c)
  \/ \E c \in Sockets : HandleRequestSync(c)
  \/ \E c \in Sockets : HandleYjsUpdate(c)
  \/ \E c \in Sockets : LoadExistingNote(c)
  \/ \E c \in Sockets : EmitTimer(c)
  \/ \E c \in Sockets : Kill(c)

InitRelay ==
  /\ connected = {}
  /\ roomData = EmptyMap
  /\ out = EmptyBag
  /\ joined = {}
  /\ inRoom = {}
  /\ missed = {}
  /\ swept = {}

\* the relay alone, driven by arbitrary messages: no editor is modelled
NoEditors ==
  /\ client = EmptyMap
  /\ toRelay = EmptyMap
  /\ inbox = EmptyMap
  /\ notes = EmptyMap
  /\ idle = EmptyMap
  /\ asked = EmptyMap

Init == InitRelay /\ NoEditors

\* the relay and the editors that connect to it
InitEditors == InitRelay /\ InitSync

Next ==
  \/ \E s \in Sockets : Connection(s) /\ UNCHANGED syncVars
  \/ \E s \in Sockets, r \in Rooms, f \in Files : JoinFile(s, r, f) /\ UNCHANGED syncVars
  \/ \E s \in Sockets, r \in Rooms, f \in Files : LeaveFile(s, r, f) /\ UNCHANGED syncVars
  \/ \E s \in Sockets, r \in Rooms, f \in Files :
       RequestFileSync(s, r, f) /\ UNCHANGED syncVars
  \/ \E s \in Sockets, r \in Rooms, f \in Files, u \in Updates :
       YjsUpdate(s, r, f, u) /\ UNCHANGED syncVars
  \/ \E s \in Sockets : Disconnect(s) /\ UNCHANGED syncVars
  \/ \E s \in Sockets : MissedDisconnect(s) /\ UNCHANGED syncVars
  \/ CleanupInterval /\ UNCHANGED syncVars

Spec == Init /\ [][Next]_vars

SpecSync == InitEditors /\ [][NextSync]_vars

\* two editors of one file that type: merging and propagation of the edits
Writers == {"s1", "s2"}
Edited == {<<"r2", "x">>}

NextEdit ==
  \/ \E c \in Writers, k \in Edited : Mount(c, k[1], k[2])
  \/ \E c \in Sockets : SyncConnection(c)
  \/ \E c \in Sockets : HandleConnection(c)
  \/ \E c \in Sockets : SyncJoinFile(c)
  \/ \E c \in Sockets : SyncRequestFileSync(c)
  \/ \E c \in Sockets : SyncYjsUpdate(c)
  \/ \E c \in Sockets : SyncReplySync(c)
  \/ \E c \in Sockets : HandleRequestSync(c)
  \/ \E c \in Sockets : HandleYjsUpdate(c)
  \/ \E c \in Sockets : LoadExistingNote(c)
  \/ \E c \in Sockets : \E value \in Typable(c) : Type(c, value)
  \/ \E c \in Sockets : DebouncedYjsUpdate(c)
  \/ \E c \in Sockets : EmitTimer(c)

SpecEdit == InitEditors /\ [][NextEdit]_vars

\* two editors of two files of one room, one of which has a saved note: the
\* saves of what the user of the first types, file switch and unmount; the
\* user of the second opens the file and closes it
Savers == {"s1", "s2"}
Active == {"s1"}
SaveOpened == [c \in Savers |-> IF c = "s1" THEN <<"r1", "x">> ELSE <<"r1", "y">>]

NextSave ==
  \/ \E c \in Savers : Mount(c, SaveOpened[c][1], SaveOpened[c][2])
  \/ \E c \in Sockets : SyncConnection(c)
  \/ \E c \in Sockets : HandleConnection(c)
  \/ \E c \in Sockets : SyncJoinFile(c)
  \/ \E c \in Sockets : SyncRequestFileSync(c)
  \/ \E c \in Sockets : SyncYjsUpdate(c)
  \/ \E c \in Sockets : SyncLeaveFile(c)
  \/ \E c \in Sockets : SyncDisconnect(c)
  \/ \E c \in Sockets : LoadExistingNote(c)
  \/ \E c \in Active : \E value \in Typable(c) : Type(c, value)
  \/ \E c \in Sockets : DebouncedYjsUpdate(c)
  \/ \E c \in Sockets : EmitTimer(c)
  \/ \E c \in Active : VisibilityHidden(c)
  \/ \E c \in Active : Unload(c)
  \/ \E c \in Sockets : HandleSaveFinal(c)
  \/ \E c \in Sockets, ok \in BOOLEAN : SaveFinish(c, ok)
  \/ \E c \in Active, f \in Files : SwitchFile(c, f)
  \/ \E c \in Sockets : Unmount(c)

SpecSave == InitEditors /\ [][NextSave]_vars

\* two editors of one file that has no note yet, both connected, joined and
\* loaded; s2 has typed its word and s1 has merged it, and nothing is under
\* way. From there: what s1 types and emits, and the saves of both, step by
\* step at the gateway, each step succeeding or failing
Storers == {"s1", "s2"}
Stored == <<"r2", "x">>
StoredText == <<Word["s2"]>>

InitStore ==
  /\ connected = Storers
  /\ roomData = joinFile(joinFile(EmptyMap, "s1", Stored[1], Stored[2]), "s2", Stored[1], Stored[2])
  /\ out = EmptyBag
  /\ joined = {<<c, Stored[1], Stored[2]>> : c \in Storers}
  /\ inRoom = {<<c, Stored[1]>> : c \in Storers}
  /\ missed = {}
  /\ swept = {}
  /\ client = [c \in Sockets |->
                 IF c \in Storers
                   THEN [Closed EXCEPT !.status = "connected", !.room = Stored[1],
                                       !.file = Stored[2], !.isLoaded = TRUE,
                                       !.ydoc = insertText(EmptyDoc, "s2", StoredText),
                                       !.text = StoredText,
                                       !.edits = IF c = "s2" THEN 1 ELSE 0]
                   ELSE Closed]
  /\ toRelay = [c \in Sockets |-> <<>>]
  /\ inbox = [c \in Sockets |-> <<>>]
  /\ notes = [k \in Rooms \X Files |->
                IF k = <<"r1", "x">> THEN Note(<<"S">>) ELSE NoNote]
  /\ idle = [c \in Sockets |-> FALSE]
  /\ asked = [c \in Sockets |-> [in |-> <<>>, out |-> <<>>]]

\* s1 is the editor that types and whose saves queue up; s2 has one save
\* under way at a time, forced or not
Queueing == {"s1"}
Alone(c) == c \in Queueing \/ client[c].writes = <<>>

NextStore ==
  \/ \E c \in Queueing : \E value \in Typable(c) : Type(c, value)
  \/ \E c \in Sockets : DebouncedYjsUpdate(c)
  \/ \E c \in Sockets : EmitTimer(c)
  \/ \E c \in Sockets : Alone(c) /\ CallSaveDoc(c)
  \/ \E c \in Sockets : Alone(c) /\ CallSaveDocForced(c)
  \/ \E c \in Sockets, i \in 1..MaxSaves, ok \in BOOLEAN : SaveLookup(c, i, ok)
  \/ \E c \in Sockets, i \in 1..MaxSaves, ok \in BOOLEAN : SaveUpsert(c, i, ok)
  \/ \E c \in Sockets, i \in 1..MaxSaves, ok \in BOOLEAN : SaveInsert(c, i, ok)
  \/ \E c \in Sockets, i \in 1..MaxSaves, ok \in BOOLEAN : SaveRefetch(c, i, ok)
  \/ \E c \in Sockets, i \in 1..MaxSaves, ok \in BOOLEAN : SaveUpdate(c, i, ok)

SpecStore == InitStore /\ [][NextStore]_vars

\* the same two editors: what they type and send each other, some of it
\* arriving as bytes that cannot be decoded
NextFault ==
  \/ \E c \in Storers : \E value \in Typable(c) : Type(c, value)
  \/ \E c \in Sockets : DebouncedYjsUpdate(c)
  \/ \E c \in Sockets : EmitTimer(c)
  \/ \E c \in Sockets : SyncYjsUpdate(c)
  \/ \E c \in Sockets : Corrupt(c)
  \/ \E c \in Sockets : HandleYjsUpdate(c)

SpecFault == InitStore /\ [][NextFault]_vars

\* the same two editors: s1 loses its transport, types, and connects again
NextOffline ==
  \/ \E c \in Queueing : Offline(c)
  \/ \E c, d \in Sockets : Reconnect(c, d)
  \/ \E c \in Sockets : SyncConnection(c)
  \/ \E c \in Sockets : HandleConnection(c)
  \/ \E c \in Sockets : SyncJoinFile(c)
  \/ \E c \in Sockets : SyncRequestFileSync(c)
  \/ \E c \in Sockets : HandleRequestSync(c)
  \/ \E c \in Sockets : SyncReplySync(c)
  \/ \E c \in Sockets : SyncYjsUpdate(c)
  \/ \E c \in Sockets : HandleYjsUpdate(c)
  \/ \E c \in Sockets : LoadExistingNote(c)
  \/ \E c \in Sockets \ (Storers \ Queueing) : \E value \in Typable(c) : Type(c, value)
  \/ \E c \in Sockets : DebouncedYjsUpdate(c)
  \/ \E c \in Sockets : EmitTimer(c)

SpecOffline == InitStore /\ [][NextOffline]_vars

\* s1 alone saves, forced or not, while it types; every request to the
\* gateway succeeds, in whatever order the gateway answers them
NextOverlap ==
  \/ \E c \in Queueing : \E value \in Typable(c) : Type(c, value)
  \/ \E c \in Queueing : DebouncedYjsUpdate(c)
  \/ \E c \in Queueing : EmitTimer(c)
  \/ \E c \in Queueing : CallSaveDoc(c)
  \/ \E c \in Queueing : CallSaveDocForced(c)
  \/ \E c \in Queueing, i \in 1..MaxSaves : SaveLookup(c, i, TRUE)
  \/ \E c \in Queueing, i \in 1..MaxSaves : SaveUpsert(c, i, TRUE)
  \/ \E c \in Queueing, i \in 1..MaxSaves : SaveInsert(c, i, TRUE)
  \/ \E c \in Queueing, i \in 1..MaxSaves : SaveRefetch(c, i, TRUE)
  \/ \E c \in Queueing, i \in 1..MaxSaves : SaveUpdate(c, i, TRUE)

SpecOverlap == InitStore /\ [][NextOverlap]_vars

\* s1 has x of r1 open, whose note holds S, and s2 has y of r1 open, which has
\* no note; both are connected, joined and loaded. From there s1 types and
\* saves, s2 changes its file, either is unmounted, and the relay serves the
\* leave-file, the disconnect and the save-final they cause
Connected(f) == [Closed EXCEPT !.status = "connected", !.room = "r1", !.file = f]

\* the editor once it has loaded the note and broadcast what the load inserted
Loaded(cl, c, data) ==
  LET got == loadExistingNote(cl, c, data)
  IN [got EXCEPT !.emit = NoUpdate, !.emitFirst = FALSE,
                 !.unsent = NotCarried(@, got.emit)]
Switching == {"s2"}

InitFinal ==
  /\ connected = {"s1", "s2"}
  /\ roomData = joinFile(joinFile(EmptyMap, "s1", "r1", "x"), "s2", "r1", "y")
  /\ out = EmptyBag
  /\ joined = {<<"s1", "r1", "x">>, <<"s2", "r1", "y">>}
  /\ inRoom = {<<"s1", "r1">>, <<"s2", "r1">>}
  /\ missed = {}
  /\ swept = {}
  /\ notes = [k \in Rooms \X Files |->
                IF k = <<"r1", "x">> THEN Note(<<"S">>) ELSE NoNote]
  /\ client = [c \in Sockets |->
                 IF c = "s1" THEN Loaded(Connected("x"), c, notes[<<"r1", "x">>])
                 ELSE IF c = "s2" THEN Loaded(Connected("y"), c, notes[<<"r1", "y">>])
                 ELSE Closed]
  /\ toRelay = [c \in Sockets |-> <<>>]
  /\ inbox = [c \in Sockets |-> <<>>]
  /\ idle = [c \in Sockets |-> c = "s2"]
  /\ asked = [c \in Sockets |-> [in |-> <<>>, out |-> <<>>]]

NextFinal ==
  \/ \E c \in Sockets \ Switching : \E value \in Typable(c) \cup {<<Blank>>} : Type(c, value)
  \/ \E c \in Sockets : DebouncedYjsUpdate(c)
  \/ \E c \in Sockets : EmitTimer(c)
  \/ \E c \in Sockets : SyncYjsUpdate(c)
  \/ \E c \in Sockets \ Switching : VisibilityHidden(c)
  \/ \E c \in Sockets \ Switching : Unload(c)
  \/ \E c \in Sockets \ Switching : DebouncedSave(c)
  \/ \E c \in Switching, f \in Files : SwitchFile(c, f)
  \/ \E c \in Sockets : Unmount(c)
  \/ \E c \in Sockets : SyncLeaveFile(c)
  \/ \E c \in Sockets : SyncDisconnect(c)
  \/ \E c \in Sockets : HandleSaveFinal(c)
  \/ \E c \in Sockets, ok \in BOOLEAN : SaveFinish(c, ok)

SpecFinal == InitFinal /\ [][NextFinal]_vars

\* ================================================================ claims
OutSet == BagToSet(out)

\* number of save-final messages for (r, f) in a bag of emissions
SaveFinalCount(bag, r, f) ==
  LET hits == {m \in BagToSet(bag) : m.ev = "save-final" /\ m.room = r /\ m.file = f}
  IN BagCardinality([m \in hits |-> bag[m]])

\* the addresses a bag of emissions is sent to
Targets(bag) == {m.to : m \in BagToSet(bag)}

\* C1: when an editor of (r, f) leaves through leave-file, the relay emits one
\* save-final for (r, f) if it was the last registered editor and none otherwise
C1_FinalSaveOnLastLeave ==
  \A s \in connected, r \in Rooms, f \in Files :
    s \in Registered(r, f)
      => SaveFinalCount(leaveFile(roomData, s, r, f).out, r, f)
           = (IF Registered(r, f) = {s} THEN 1 ELSE 0)

\* a leave-file emitted save-final while another connected socket of the room,
\* no longer an editor of the file, is still in the room
C1_Witness ==
  \E m \in OutSet :
    /\ m.ev = "save-final" /\ m.by.on = "leave-file"
    /\ SaveFinalCount(out, m.room, m.file) = 1
    /\ \E s2 \in connected \ {m.by.s} :
         /\ s2 \in DOMAIN roomData[m.room].sockets
         /\ roomData[m.room].sockets[s2] = {}

\* C2: every step that takes the editor set of (r, f) from non-empty to empty
\* emits exactly one save-final for (r, f)
C2_EveryEmptyTransitionEmitsOnce ==
  [][\A r \in Rooms, f \in Files :
       (Editors(r, f) # {} /\ Editors(r, f)' = {})
         => SaveFinalCount(out', r, f) = 1]_vars

\* C3: the editor set of every (r, f) is the set of sockets that joined it and
\* have not left, disconnected or been swept since; the status count is its
\* size; the file entry exists iff the set is non-empty
C3_RegistryMatchesJoins ==
  \A r \in Rooms, f \in Files :
    /\ Editors(r, f) = Registered(r, f)
    /\ StatusEditors(r, f) = Cardinality(Registered(r, f))
    /\ StatusHasFile(r, f) <=> Registered(r, f) # {}

\* two editors on one file, one of them no longer connected
C3_Witness ==
  \E r \in Rooms, f \in Files :
    /\ StatusEditors(r, f) = 2
    /\ \E s \in Editors(r, f) : s \in missed

\* C4: a room entry exists iff some connection references it, and its
\* connection map holds exactly those connections
C4_RoomExistsIffReferenced ==
  \A r \in Rooms :
    LET refs == {s \in Sockets : <<s, r>> \in inRoom}
    IN /\ r \in DOMAIN roomData <=> refs # {}
       /\ r \in DOMAIN roomData => DOMAIN roomData[r].sockets = refs

\* a disconnect removed the last connection of a room and the room is gone
C4_Witness ==
  \E m \in OutSet :
    /\ m.by.on = "disconnect"
    /\ m.room \notin DOMAIN roomData

\* C5: a socket whose disconnect handler has run is in no editor set and in no
\* connection map
C5_DisconnectLeavesEverything ==
  \A s \in Sockets :
    (s \notin connected /\ s \notin missed)
      => /\ ~Referenced(s)
         /\ \A r \in Rooms, f \in Files : s \notin Editors(r, f)

\* a disconnect emptied files of two rooms
C5_Witness ==
  \E m1 \in OutSet, m2 \in OutSet :
    /\ m1.by.on = "disconnect" /\ m2.by = m1.by
    /\ m1.room # m2.room
    /\ m1.by.s \notin connected

\* C6: an update from s for (r, f) is addressed to exactly the registered
\* editors of (r, f) other than s, once each
C6_UpdateToOtherEditorsOnly ==
  \A s \in connected, r \in Rooms, f \in Files, u \in Updates :
    LET sent == yjsUpdate(roomData, s, r, f, u)
    IN /\ Targets(sent) = Registered(r, f) \ {s}
       /\ \A m \in BagToSet(sent) :
            /\ m.ev = "yjs-update" /\ m.file = f /\ m.update = u
            /\ CopiesIn(m, sent) = 1

\* an update was relayed while a third socket edits another file of the room
C6_Witness ==
  \E m \in OutSet :
    /\ m.ev = "yjs-update" /\ m.by.on = "yjs-update"
    /\ \E s3 \in connected \ {m.to, m.by.s}, g \in Files \ {m.file} :
         /\ s3 \in Editors(m.room, g)
         /\ s3 \notin Editors(m.room, m.file)

\* C7: request-file-sync from s for (r, f) sends request-sync, naming s as the
\* requester, to exactly the registered editors of (r, f) other than s
C7_SyncRequestToOtherEditorsOnly ==
  \A s \in connected, r \in Rooms, f \in Files :
    LET sent == requestFileSync(roomData, s, r, f)
    IN /\ Targets(sent) = Registered(r, f) \ {s}
       /\ \A m \in BagToSet(sent) :
            /\ m.ev = "request-sync" /\ m.file = f /\ m.requester = s
            /\ CopiesIn(m, sent) = 1

\* a sync request reached an editor while the requester edits the file too and
\* a third socket of the room does not
C7_Witness ==
  \E m \in OutSet :
    /\ m.ev = "request-sync"
    /\ m.requester \in Editors(m.room, m.file)
    /\ \E s3 \in connected \ {m.to, m.requester} :
         /\ s3 \in DOMAIN roomData[m.room].sockets
         /\ s3 \notin Editors(m.room, m.file)

\* C9: the cleanup interval emits no save-final and leaves every connected
\* socket in every editor set and connection map it was in
C9_SweepKeepsLiveEditors ==
  LET res == sweep(roomData, connected, DOMAIN roomData)
  IN /\ \A r \in Rooms, f \in Files :
          /\ SaveFinalCount(res.out, r, f) = 0
          /\ EditorsIn(res.rd, r, f) \cap connected = Registered(r, f) \cap connected
     /\ \A r \in DOMAIN roomData :
          \A s \in (DOMAIN roomData[r].sockets) \cap connected :
            /\ r \in DOMAIN res.rd
            /\ s \in DOMAIN res.rd[r].sockets
            /\ res.rd[r].sockets[s] = roomData[r].sockets[s]

\* the sweep removed a stale editor from a file that keeps a connected editor
C9_Witness ==
  \E t \in swept :
    Editors(t[2], t[3]) \cap connected # {}

\* C8: the relay delivers an editor's reply to a sync request to the socket
\* that made the request and to no other socket
C8_ReplyToRequesterOnly ==
  [][\A c \in Sockets :
       SyncReplySync(c)
         => \A x \in Sockets : inbox'[x] # inbox[x] => x = Head(asked[c].out)]_vars

\* a reply has reached its requester while a third editor of the file is online
C8_Witness ==
  \E m \in OutSet :
    /\ m.by.on = "reply-sync"
    /\ m.to \in connected
    /\ inbox[m.to] # <<>>
    /\ inbox[m.to][Len(inbox[m.to])] = ToClientMsg("yjs-update", m.file, None, m.update)
    /\ m.update # NoUpdate
    /\ \E b \in Sockets \ {m.to, m.by.s} :
         /\ client[b].status = "connected"
         /\ b \in Registered(client[m.to].room, m.file)
         /\ m.by.s \in Registered(client[m.to].room, m.file)

\* C10: an editor that joined a file with no other editor and no saved
\* snapshot has an empty document while it stays alone, and neither join-file
\* nor request-file-sync makes the relay emit save-final
C10_IdleJoinStaysEmpty ==
  /\ \A c \in Sockets :
       idle[c] => /\ toString(client[c].ydoc) = <<>>
                  /\ client[c].emit = NoUpdate
  /\ \A m \in OutSet :
       m.ev = "save-final" => m.by.on \notin {"join-file", "request-file-sync"}

\* an idle joiner has loaded and has nothing pending, in a file whose namesake
\* in another room has a snapshot, after earlier editors of the file have gone
C10_Witness ==
  \E c \in Sockets :
    /\ idle[c]
    /\ client[c].isLoaded
    /\ ~Unsettled(c)
    /\ \E r \in Rooms : r # client[c].room /\ HasSnapshot(r, client[c].file)
    /\ \E x \in Sockets : client[x].status = "gone"
    /\ client[c].room \in DOMAIN roomData

\* ---------------------------------------------------- merging and typing
\* the editors that have a file open
Replicas == {c \in Sockets : client[c].status = "connected"}

SameFile(a, b) ==
  /\ client[a].room = client[b].room
  /\ client[a].file = client[b].file

\* the operations a replica has applied: the structs in its document and the
\* deletions of them
Applied(c) == [structs |-> Ids(client[c].ydoc.list), ds |-> Deleted(client[c].ydoc)]

\* C11: two replicas of the same (room, file) that have applied the same
\* operations, in whatever order and however often each arrived, hold equal
\* content strings
C11_MergeConverges ==
  \A a \in Replicas, b \in Replicas :
    (SameFile(a, b) /\ Applied(a) = Applied(b))
      => toString(client[a].ydoc) = toString(client[b].ydoc)

\* two replicas hold the same structs, among them concurrent ones of both
\* (each made with the same right origin), and show them
C11_Witness ==
  \E a \in Replicas, b \in Replicas :
    /\ a # b /\ SameFile(a, b) /\ Applied(a) = Applied(b)
    /\ \E i, j \in DOMAIN client[a].ydoc.list :
         LET x == client[a].ydoc.list[i]
             y == client[a].ydoc.list[j]
         IN /\ x.id[1] = a /\ y.id[1] = b /\ x.right = y.right
            /\ x.id \notin client[a].ydoc.ds /\ y.id \notin client[a].ydoc.ds

\* the place of the struct with this id in the document of c
Place(c, id) == CHOOSE i \in DOMAIN client[c].ydoc.list : client[c].ydoc.list[i].id = id

Shows(c, word) == \E i \in DOMAIN toString(client[c].ydoc) : toString(client[c].ydoc)[i] = word

\* a made the struct x and b the struct y at position 0 of the same text,
\* neither knowing the other, and both documents hold both
Exchanged(a, b, x, y) ==
  /\ a # b /\ SameFile(a, b)
  /\ x.id[1] = a /\ y.id[1] = b /\ x.right = y.right
  /\ Word[a] = x.text[1] /\ Word[b] = y.text[1]
  /\ {x.id, y.id} \subseteq Ids(client[a].ydoc.list) \cap Ids(client[b].ydoc.list)

Structs(c) == {client[c].ydoc.list[i] : i \in DOMAIN client[c].ydoc.list}

\* C12: when A has inserted "foo" and B, not knowing of it, "bar" at position 0,
\* and each has merged the other's insert, the two inserts stand in the same
\* order in both documents, and while neither user has typed again both
\* show the same content, with both words in it
C12_ConcurrentInsertsKept ==
  \A a \in Replicas, b \in Replicas : \A x \in Structs(a), y \in Structs(a) :
    Exchanged(a, b, x, y) =>
      /\ (Place(a, x.id) < Place(a, y.id)) <=> (Place(b, x.id) < Place(b, y.id))
      /\ (client[a].edits = 1 /\ client[b].edits = 1) =>
            /\ toString(client[a].ydoc) = toString(client[b].ydoc)
            /\ Shows(a, Word[a]) /\ Shows(a, Word[b])
            /\ Shows(b, Word[a]) /\ Shows(b, Word[b])

\* s1 typed "foo" and s2 "bar" into the same text, once each, and each has
\* merged the other's insert
C12_Witness ==
  \E x \in Structs("s1"), y \in Structs("s1") :
    /\ {"s1", "s2"} \subseteq Replicas
    /\ Exchanged("s1", "s2", x, y)
    /\ x.text[1] = "foo" /\ y.text[1] = "bar"
    /\ client["s1"].edits = 1 /\ client["s2"].edits = 1

\* the editor is loaded and connected, the user is not typing, every timer of
\* the editor has fired and every message from and to it has been handled
Quiescent(c) ==
  /\ client[c].status = "connected"
  /\ client[c].isLoaded
  /\ ~client[c].typed.on
  /\ ~Unsettled(c)

\* C13: when the editors of a (room, file) are connected, have stopped
\* typing, and every timer has fired and every message has been delivered
\* and applied, their documents hold the same content
C13_QuiescentReplicasAgree ==
  (\A c \in Replicas : Quiescent(c)) =>
    \A a \in Replicas, b \in Replicas :
      SameFile(a, b) => toString(client[a].ydoc) = toString(client[b].ydoc)

\* C14: every operation a local edit produces while the transport is
\* connected is queued and then emitted: once the emit timer of an editor has
\* nothing pending, no update event of its local edits is left that no
\* message to the relay has carried
C14_LocalOperationsEmitted ==
  \A c \in Replicas : client[c].emit = NoUpdate => client[c].unsent = {}

\* C15: applying an update or a full-state reply received from the relay
\* never makes the editor emit an update: the merge leaves what the emit
\* timer holds as it was
C15_RemoteMergeNotReEmitted ==
  [][\A c \in Sockets : HandleYjsUpdate(c) => client'[c].emit = client[c].emit]_vars

\* -------------------------------------------------------------- saving
\* C16: every change of the content that a local edit makes on a loaded
\* document schedules the debounced save
C16_LocalEditSchedulesSave ==
  [][\A c \in Sockets :
       (/\ DebouncedYjsUpdate(c)
        /\ client[c].isLoaded
        /\ toString(client'[c].ydoc) # toString(client[c].ydoc))
         => client'[c].saveTimer]_vars

\* the writes that two calls of saveDoc in succession start, the document
\* unchanged between them
WritesOfTwo(cl, forceImmediate) ==
  Len(saveDoc(saveDoc(cl, None, forceImmediate), None, forceImmediate).writes)
    - Len(cl.writes)

\* C17 as stated: save called twice in succession on unchanged content
\* starts at most one write, whether the calls are forced or not
C17_SaveTwiceWritesOnce ==
  \A c \in Sockets, forceImmediate \in BOOLEAN :
    WritesOfTwo(client[c], forceImmediate) <= 1

\* C17: a save that is not forced, called twice in succession on unchanged
\* content, starts at most one write, and the second call changes nothing;
\* two forced saves of an open editor start two writes
C17_UnforcedSaveTwiceWritesOnce ==
  \A c \in Sockets :
    /\ WritesOfTwo(client[c], FALSE) <= 1
    /\ saveDoc(saveDoc(client[c], None, FALSE), None, FALSE) = saveDoc(client[c], None, FALSE)
    /\ HasText(client[c]) => WritesOfTwo(client[c], TRUE) = 2

\* a loaded editor whose content is neither empty nor the one saved last, so
\* that the first of the two calls starts a write, after an earlier save
C17_Witness ==
  \E c \in Sockets :
    /\ client[c].isLoaded
    /\ saveDoc(client[c], None, FALSE).writes # client[c].writes
    /\ client[c].lastSaved # client[c].lastOk

\* C18: the record of the content saved last is the content of a save that
\* succeeded (or the content loaded): with no write in flight it is the
\* content persisted last
C18_LastSavedIsPersisted ==
  \A c \in Sockets :
    (HasText(client[c]) /\ client[c].writes = <<>>)
      => client[c].lastSaved = client[c].lastOk

\* C19: when the page becomes hidden, on unload and on a save-final naming
\* the current file the editor starts a write of the current content at once,
\* whatever save is in flight (for the page events: whenever that content is
\* not the one persisted last); a save-final naming another file starts none
C19_ForcedSaveStartsWrite ==
  \A c \in Sockets :
    LET asked_ == client[c].trigger
    IN /\ (asked_.on \in {"hidden", "unload"} /\ asked_.owed) => asked_.wrote
       /\ (asked_.on = "save-final" /\ asked_.current) => asked_.wrote
       /\ (asked_.on = "save-final" /\ ~asked_.current) => ~asked_.wrote

\* C20: at the teardown of a file (file switch or unmount), whenever the
\* content differs from the snapshot persisted last, the empty content
\* included, a forced save of it is started
C20_TeardownSavesUnsaved ==
  \A c \in Sockets :
    (client[c].trigger.on = "teardown" /\ client[c].trigger.owed)
      => client[c].trigger.wrote

\* ------------------------------------------------------------------- C21
\* the first saves of the two editors that meet at the gateway
FirstSaves(c, d) ==
  /\ c # d
  /\ \E i \in DOMAIN client[c].writes :
        /\ client[c].writes[i].conflict
        /\ client[c].writes[i].pc = "update"
        /\ Key(client[c].writes[i]) = Stored
  /\ Stored[2] \in client[d].cached
  /\ client[d].lastOk # <<>>

\* C21: when the first saves of two editors of one (room, title) meet, the
\* table holds one row of that key and never more; the insert that hits the
\* uniqueness conflict goes on to fetch the row again, the fetch goes on to
\* the update, and the update writes the content into that row; none of these
\* steps puts the editor into the save-error state
C21_ConcurrentFirstSaveOneRecord ==
  /\ [](\A k \in Rooms \X Files : notes[k].rows <= 1)
  /\ [][\A c \in Sockets, i \in 1..MaxSaves :
         /\ (SaveInsert(c, i, TRUE) /\ notes[Key(client[c].writes[i])].rows > 0)
              => /\ AtPc(c, i, "refetch")'
                 /\ client'[c].error = client[c].error
                 /\ notes' = notes
         /\ (SaveRefetch(c, i, TRUE) /\ notes[Key(client[c].writes[i])].rows > 0)
              => /\ AtPc(c, i, "update")'
                 /\ client'[c].error = client[c].error
         /\ SaveUpdate(c, i, TRUE)
              => /\ notes'[Key(client[c].writes[i])] = Note(client[c].writes[i].content)
                 /\ client'[c].error = client[c].error
                 /\ Len(client'[c].writes) = Len(client[c].writes) - 1]_vars

\* the insert of one editor has succeeded, the insert of the other has hit
\* the conflict and its save has reached the update; no save error is shown
C21_Witness ==
  /\ \E c, d \in Storers : FirstSaves(c, d)
  /\ notes[Stored].rows = 1
  /\ \A c \in Storers : client[c].error = None

\* ------------------------------------------------------------------- C22
\* the saves of the editor that have started and not settled
InFlight(cl) == {i \in DOMAIN cl.writes : cl.writes[i].pc # "wait"}

\* C22: an editor all of whose saves under way are debounced ones (none is
\* forced) has at most one of them in flight
C22_OneSaveInFlight ==
  \A c \in Sockets :
    (\A i \in DOMAIN client[c].writes : ~client[c].writes[i].forced)
      => Cardinality(InFlight(client[c])) <= 1

\* ------------------------------------------------------------------- C23
\* the save of c at place j settles in this step
Settles(c, j) ==
  /\ j \in DOMAIN client[c].writes
  /\ client[c].writes[j].pc # "wait"
  /\ Len(client'[c].writes) < Len(client[c].writes)
  /\ \E ok \in BOOLEAN : \/ SaveUpsert(c, j, ok) \/ SaveInsert(c, j, ok)
                          \/ SaveRefetch(c, j, ok) \/ SaveUpdate(c, j, ok)

\* the saves of c that wait for the save at place j
Waiters(c, j) ==
  {i \in DOMAIN client[c].writes : client[c].writes[i].pc = "wait" /\ client[c].writes[i].waits = j}

\* C23 as stated: a save that has waited goes to the gateway with the
\* content the document has when the wait ends
C23_EvaluatesAfterWait ==
  [][\A c \in Sockets, j \in 1..MaxSaves :
       Settles(c, j) => \A i \in Waiters(c, j) :
                          client'[c].writes[i - 1].content = toString(client[c].ydoc)]_vars

\* C23: a save that is not forced, requested while the save in
\* savePromiseRef has not settled, captures the content and records it as
\* last saved when it is requested; it stays out of the gateway while that
\* save has not settled and goes to the gateway when it settles, with the
\* content it captured; a forced save goes to the gateway at once
C23_CapturesThenWaits ==
  [][\A c \in Sockets :
       LET cl == client[c]
           n == Len(cl.writes) + 1
       IN /\ (CallSaveDoc(c) /\ cl.savePromise # 0)
               => /\ client'[c].writes[n].pc = "wait"
                  /\ client'[c].writes[n].content = toString(cl.ydoc)
                  /\ client'[c].lastSaved = toString(cl.ydoc)
          /\ CallSaveDocForced(c) => client'[c].writes[n].pc # "wait"
          /\ \A j \in DOMAIN cl.writes : \A i \in Waiters(c, j) :
               /\ j < i /\ cl.writes[j].pc # "wait"
               /\ Settles(c, j)
                    => /\ client'[c].writes[i - 1].pc # "wait"
                       /\ client'[c].writes[i - 1].content = cl.writes[i].content
               /\ (Len(client'[c].writes) = Len(cl.writes) /\ client'[c] # cl)
                    => client'[c].writes[i].pc = "wait"
               /\ \A k \in DOMAIN cl.writes \ {j} :
                    Settles(c, k) => client'[c].writes[shift(i, k)].pc = "wait"]_vars

\* one save is in flight, a save that is not forced waits for it with a
\* content the document no longer has, and a forced save has started
C23_Witness ==
  \E c \in Sockets : \E i, j, k \in DOMAIN client[c].writes :
    /\ client[c].writes[i].pc # "wait" /\ ~client[c].writes[i].forced
    /\ client[c].writes[j].pc = "wait" /\ client[c].writes[j].waits = i
    /\ client[c].writes[j].content # toString(client[c].ydoc)
    /\ client[c].writes[k].forced /\ k > j

\* ------------------------------------------------------------------- C25
\* C25: a write to the gateway that fails (the upsert of an existing record,
\* the insert, the update after the conflict) leaves the editor in the
\* save-error state and the document as it was
C25_FailedWriteShowsError ==
  [][\A c \in Sockets, i \in 1..MaxSaves :
       (SaveUpsert(c, i, FALSE) \/ SaveInsert(c, i, FALSE) \/ SaveUpdate(c, i, FALSE))
         => /\ client'[c].error = "save"
            /\ client'[c].ydoc = client[c].ydoc]_vars

\* ------------------------------------------------------------------- C24
\* C24: a remote update that cannot be decoded leaves the editor in the
\* error state and the document as it was; after it, what the user types is
\* still applied to the document when debouncedYjsUpdate fires, and a remote
\* update that can be decoded is still merged
C24_OperationalAfterMalformed ==
  [][\A c \in Sockets :
       /\ (HandleYjsUpdate(c) /\ Head(inbox[c]).update = Malformed
                              /\ Head(inbox[c]).file = client[c].file)
            => /\ client'[c].error = "merge"
               /\ client'[c].ydoc = client[c].ydoc
       /\ (client[c].error = "merge" /\ DebouncedYjsUpdate(c))
            => toString(client'[c].ydoc) = client[c].typed.value
       /\ (client[c].error = "merge" /\ HandleYjsUpdate(c)
                                     /\ Head(inbox[c]).update # Malformed
                                     /\ Head(inbox[c]).file = client[c].file)
            => client'[c].ydoc = readUpdate(client[c].ydoc, Head(inbox[c]).update)]_vars

\* ------------------------------------------------------------------- C26
\* what the step has put into the queue to the relay
Emitted(c) == SubSeq(toRelay'[c], Len(toRelay[c]) + 1, Len(toRelay'[c]))

\* join-file and then request-file-sync for (r, f) are among the messages
JoinsThenSyncs(msgs, r, f) ==
  \E i, j \in DOMAIN msgs :
    /\ i < j
    /\ msgs[i] = ToRelayMsg("join-file", r, f, None, NoUpdate)
    /\ msgs[j] = ToRelayMsg("request-file-sync", r, f, None, NoUpdate)

\* the step leaves the editor showing a file it did not show before, or
\* showing its file over a transport that was not connected before
Opens(c) ==
  /\ client'[c].status = "connected"
  /\ client[c].status # "connected" \/ client'[c].file # client[c].file

\* C26: the step in which an editor comes to show a file over a connected
\* transport (the transport connects, or the editor switches files on a
\* connected transport) emits join-file and then request-file-sync for that
\* (room, file)
C26_OpenEmitsJoinThenSync ==
  [][\A c \in Sockets :
       Opens(c) => JoinsThenSyncs(Emitted(c), client'[c].room, client'[c].file)]_vars

\* ------------------------------------------------------------------- C27
\* C27: an editor that shows a file over a connected transport and has not
\* loaded it has the load of that file pending (the timer of
\* handleConnection, which is what sets isLoaded)
C27_OpenFileGetsLoaded ==
  \A c \in Sockets :
    (client[c].status = "connected" /\ ~client[c].isLoaded) => client[c].load = "timer"

\* ------------------------------------------------------------------- C28
\* C28: when the fetch of the snapshot returns to a document that is not
\* empty (peer state has arrived before), the document stays as it is: the
\* snapshot goes only into a document that is empty at that moment
C28_SnapshotOnlyIntoEmpty ==
  [][\A c \in Sockets :
       (LoadExistingNote(c) /\ ytextLength(client[c].ydoc) > 0)
         => /\ client'[c].ydoc = client[c].ydoc
            /\ client'[c].lastSaved = client[c].lastSaved
            /\ client'[c].isLoaded]_vars

\* an editor has finished loading a file that has a snapshot, its document
\* holds what a peer sent, and the snapshot is not in it
C28_Witness ==
  \E c \in Sockets :
    /\ client[c].isLoaded
    /\ client[c].status = "connected"
    /\ ytextLength(client[c].ydoc) > 0
    /\ selectNote(notes, client[c].room, client[c].file).content # <<>>
    /\ \A i \in DOMAIN client[c].ydoc.list : client[c].ydoc.list[i].id[1] # c
    /\ client[c].lastSaved = <<>>

\* ------------------------------------------------------------------- C29
\* the editor is registered for its file at the relay and nothing is under
\* way anywhere: the sync exchange of its reconnect is over
Reconciled(c) ==
  /\ <<c, client[c].room, client[c].file>> \in joined
  /\ \A x \in Replicas : Quiescent(x)
  /\ \A x \in Sockets : asked[x] = [in |-> <<>>, out |-> <<>>]

\* C29: once an editor that made edits while its transport was down has
\* reconnected, joined its file again and finished the sync exchange, every
\* other editor of the file holds the structs of those edits
C29_OfflineEditsReconciled ==
  \A c \in Replicas :
    (client[c].offlineEdits # {} /\ Reconciled(c))
      => \A b \in Replicas :
           SameFile(b, c)
             => \A e \in client[c].offlineEdits :
                  {x.id : x \in e.structs} \subseteq Ids(client[b].ydoc.list)

\* ------------------------------------------------------------------- C30
\* the step tears the file of the editor down: the editor shows another file
\* after it, or is unmounted
TornDown(c) ==
  \/ client'[c].switched # client[c].switched
  \/ HasText(client[c]) /\ client'[c].status = "gone"

\* C30: the teardown of a file (the file is switched, or the editor is
\* unmounted) leaves neither the timer of the broadcast nor the timer of the
\* save pending, so no callback scheduled for the closed file runs afterwards
C30_TeardownCancelsTimers ==
  [][\A c \in Sockets :
       TornDown(c) => /\ client'[c].emit = NoUpdate
                      /\ ~client'[c].saveTimer]_vars

\* a file has been torn down while the timer of its broadcast was pending
C30_Witness ==
  \E c \in Sockets :
    /\ client[c].trigger.pending
    /\ client[c].trigger.on = "teardown"
    /\ client[c].emit = NoUpdate

\* ------------------------------------------------------------------- C31
\* the place the save at place i has after the step, 0 when it has settled
PlaceAfter(c, i) ==
  IF Len(client'[c].writes) >= Len(client[c].writes) THEN i
  ELSE IF \E j \in 1..(i - 1) : Settles(c, j) THEN i - 1
  ELSE IF Settles(c, i) THEN 0 ELSE i

\* C31: a save takes the content the document has when it is called; while
\* it waits for the save in flight or for the lookup, whatever is typed does
\* not change the content it holds, and what it writes into the row is that
\* content
C31_WritesContentAtCall ==
  [][\A c \in Sockets :
       LET cl == client[c]
           n == Len(cl.writes) + 1
       IN /\ (CallSaveDoc(c) \/ CallSaveDocForced(c))
               => client'[c].writes[n].content = toString(cl.ydoc)
          /\ \A i \in DOMAIN cl.writes :
               /\ PlaceAfter(c, i) # 0
                    => client'[c].writes[PlaceAfter(c, i)].content = cl.writes[i].content
               /\ (Settles(c, i) /\ notes' # notes)
                    => notes'[Key(cl.writes[i])].content = cl.writes[i].content]_vars

\* a save has got past its wait or its lookup and is about to write, and the
\* document has changed since it was called
C31_Witness ==
  \E c \in Sockets : \E i \in DOMAIN client[c].writes :
    /\ client[c].writes[i].pc \in {"insert", "upsert", "update"}
    /\ client[c].writes[i].content # toString(client[c].ydoc)
    /\ client[c].writes[i].content # <<>>

\* ------------------------------------------------------------------- C32
\* the files the room's connection map records for socket s
CurrentFiles(r, s) ==
  IF r \in DOMAIN roomData /\ s \in DOMAIN roomData[r].sockets
    THEN roomData[r].sockets[s]
    ELSE {}

\* C32: in every room the two registry maps agree: s is in the editor set of
\* f exactly when f is among the current files recorded for s
C32_RegistryMapsAgree ==
  \A r \in Rooms, s \in Sockets, f \in Files :
    s \in Editors(r, f) <=> f \in CurrentFiles(r, s)

\* a socket that left its only file keeps its connection entry, with no
\* current file, next to another socket that still edits two files
C32_Witness ==
  \E r \in Rooms, s \in Sockets, t \in Sockets :
    /\ r \in DOMAIN roomData
    /\ s \in DOMAIN roomData[r].sockets /\ CurrentFiles(r, s) = {}
    /\ CurrentFiles(r, t) = Files

\* ------------------------------------------------------------------- C33
\* the editor sends a message in this step
Sends(c) == Len(toRelay'[c]) > Len(toRelay[c])

\* the file the teardown closes: the file of the final save that cleanup()
\* awaited when the step settles that save, the open file otherwise
ClosedFile(c) ==
  IF Len(client'[c].writes) < Len(client[c].writes)
    THEN Head(client[c].writes).file
    ELSE client[c].file

\* C33: the leave-file a teardown emits names the file being closed, not the
\* file opened next, whether the teardown saves first or not
C33_LeaveNamesClosedFile ==
  [][\A c \in Sockets :
       (Sends(c) /\ toRelay'[c][Len(toRelay'[c])].ev = "leave-file")
         => toRelay'[c][Len(toRelay'[c])].file = ClosedFile(c)]_vars

\* ------------------------------------------------------------------- C34
\* the final saves of teardowns that are still under way
FinalSaves(cl) == {j \in DOMAIN cl.writes : cl.writes[j].leave}

\* C34: the leave-file of a teardown is emitted only once the final save
\* that the teardown started has completed or failed: a step that emits
\* leave-file either settles such a final save or is a teardown that started
\* no save, so the relay cannot emit the save-final this leave causes before
\* the final write was attempted
C34_LeaveAfterFinalSave ==
  [][\A c \in Sockets :
       (Sends(c) /\ toRelay'[c][Len(toRelay'[c])].ev = "leave-file")
         => \/ Cardinality(FinalSaves(client'[c])) < Cardinality(FinalSaves(client[c]))
            \/ Len(client'[c].writes) = Len(client[c].writes)]_vars

\* a teardown saved, the save has settled and the leave-file is on its way
C34_Witness ==
  \E c \in Sockets :
    /\ client[c].trigger.on = "teardown" /\ client[c].trigger.wrote
    /\ client[c].writes = <<>>
    /\ \E i \in DOMAIN toRelay[c] : toRelay[c][i].ev = "leave-file"

\* ------------------------------------------------------------------- C35
\* C35: once every save of an editor has completed, the content persisted is
\* the content of the save requested last (lastSavedContentRef is set by every
\* request that goes to the gateway), not an older snapshot
C35_LatestRequestPersisted ==
  \A c \in Queueing :
    (client[c].writes = <<>> /\ notes[Stored].rows > 0)
      => notes[Stored].content = client[c].lastSaved

\* ------------------------------------------------------------------- C36
\* C36: an editor has no write at the gateway for the file it has open before
\* the initial load of that file has finished
C36_NoWriteBeforeLoad ==
  \A c \in Sockets : \A i \in DOMAIN client[c].writes :
    (HasText(client[c]) /\ client[c].writes[i].doc = client[c].switched)
      => client[c].isLoaded

\* ------------------------------------------------------------------- C37
\* C37: editors that open a file whose snapshot is S, load S and exchange what
\* they hold end with the content S: no editor holds the snapshot twice. No
\* editor types here, so a document holds nothing or the snapshot
C37_SnapshotNotDuplicated ==
  \A c \in Sockets :
    HasText(client[c])
      => toString(client[c].ydoc) \in {<<>>, notes[<<client[c].room, client[c].file>>].content}

\* ------------------------------------------------------------------- C38
\* C38: when an editor has changed the text its peers hold and everything
\* has been delivered and applied, a peer that has typed nothing itself holds
\* the text the editor typed: what the edit left untouched is there once
C38_PeersHoldEditedText ==
  (\A c \in Replicas : Quiescent(c)) =>
    \A a \in Replicas, b \in Replicas :
      (SameFile(a, b) /\ client[a].edits > 0 /\ client[b].edits = 0)
        => toString(client[b].ydoc) = client[a].text

\* ------------------------------------------------------------------- C39
\* the textarea is enabled only while the open file is loaded: a callback of
\* debouncedYjsUpdate that is pending on a file not loaded was scheduled for
\* the file open before
StaleEdit(c) == HasText(client[c]) /\ client[c].typed.on /\ ~client[c].isLoaded

\* C39: text typed while one file was open is never applied to the document
\* of the file opened next: when the pending callback of a local edit is
\* spent after the file has changed, the document of the new file stays as
\* it is
C39_StaleEditNotApplied ==
  [][\A c \in Sockets :
       (StaleEdit(c) /\ HasText(client'[c]) /\ ~client'[c].typed.on)
         => client'[c].ydoc = client[c].ydoc]_vars

\* ------------------------------------------------------------------- C40
\* the step starts a write of empty content for editor c
WritesEmpty(c) ==
  /\ Len(client'[c].writes) > Len(client[c].writes)
  /\ client'[c].writes[Len(client'[c].writes)].content = <<>>

\* C40: with empty content, or white space only, the debounced save starts no
\* write and leaves the record of the content saved last as it is, and with
\* empty content the teardown starts no write either: a write of empty
\* content is started only by the forced save of the visibility-hidden,
\* unload or save-final handler
C40_EmptySavedOnlyForced ==
  [][\A c \in Sockets :
       /\ (DebouncedSave(c) /\ toString(client[c].ydoc) \in {<<>>, <<Blank>>})
            => /\ client'[c].writes = client[c].writes
               /\ client'[c].lastSaved = client[c].lastSaved
       /\ (TornDown(c) /\ toString(client[c].ydoc) = <<>>)
            => Len(client'[c].writes) = Len(client[c].writes)
       /\ WritesEmpty(c) => client'[c].trigger.on \in {"hidden", "unload", "save-final"}]_vars

\* the debounced save has run on a document whose text was deleted after S
\* had been saved: nothing was written and the note still holds S
C40_Witness ==
  \E c \in Sockets :
    /\ client[c].trigger.on = "debounced"
    /\ client[c].trigger.owed /\ ~client[c].trigger.wrote
    /\ toString(client[c].ydoc) = <<>>
    /\ client[c].lastSaved # <<>>
    /\ client[c].writes = <<>>
    /\ notes[<<client[c].room, client[c].file>>].content = client[c].lastSaved
====
